---- MODULE Spec2Model ----
(***************************************************************************)
(* Security middleware of the Train Station Dashboard:                     *)
(*   src/src/lib/security/index.ts       (CSRFProtection, SecurityHeaders, *)
(*                                        InputSanitizer, singletons)      *)
(*   src/src/lib/security/middleware.ts  (SecurityMiddleware facade)       *)
(*                                                                         *)
(* Every SecurityMiddleware instance holds only its immutable config; the  *)
(* CSRF records live in the module singleton defaultCSRFProtection, so an  *)
(* instance is an input of each operation (its config) and the token map   *)
(* is one variable.  Each action is one whole method call; `call` records  *)
(* the call just made, what it read and what it returned.                  *)
(***************************************************************************)
EXTENDS Integers, Sequences, FiniteSets, TLC

VARIABLES
    now,          \* Date.now(), in milliseconds since the module was loaded
    ticks,        \* how many times the clock has been advanced
    tokens,       \* defaultCSRFProtection.tokens : Map sessionId -> record
    issued,       \* how many values the secure random source has produced
    window,       \* TRUE iff typeof window !== 'undefined' (browser)
    localStorage, \* localStorage.getItem('session-id'), NULL when absent
    ledger,       \* observer: token -> session it was issued for, successes
    sessions,     \* defaultSessionSecurity.sessions : Map sessionId -> record
    sessionLedger,\* observer: session id -> what createSession was given
    requests,     \* validation requests waiting in the event loop, by caller
    origin,       \* observer: token -> the instance and method that issued it
    call          \* observer: the call just made, its reads and its result

vars ==
    <<now, ticks, tokens, issued, window, localStorage, ledger, sessions,
      sessionLedger, requests, origin, call>>

(***************************************************************************)
(* Bounds of the model.                                                    *)
(***************************************************************************)
MaxTokens == 2
MaxTicks == 2
MaxDepth == 4
MaxSessions == 1
MaxHours == 26

(***************************************************************************)
(* Program constants and value universes.                                  *)
(***************************************************************************)
tokenExpiry == 60 * 60 * 1000

NULL == "<null>"
UNDEFINED == "<undefined>"

SessionIds == {"sess-1", "sess-2"}
UUIDs == {"uuid-1"}
AllSessionIds == SessionIds \cup UUIDs

TickSteps == {1, tokenExpiry}

\* SecurityMiddlewareConfig of an instance (rateLimitBypass is never read).
Configs ==
    [enableCSRF : BOOLEAN,
     enableSecurityHeaders : BOOLEAN,
     enableInputSanitization : BOOLEAN]

\* generateCSRFToken and validateCSRFToken read enableCSRF alone: the
\* instances that differ for them.
CSRFConfigs ==
    {c \in Configs : c.enableSecurityHeaders /\ c.enableInputSanitization}

\* The instances whose input sanitization is on.
SanitizingConfigs == {c \in Configs : c.enableInputSanitization}

(***************************************************************************)
(* JavaScript Map helpers.                                                 *)
(***************************************************************************)
MapSet(m, k, v) == [x \in (DOMAIN m) \cup {k} |-> IF x = k THEN v ELSE m[x]]

MapDelete(m, k) == [x \in (DOMAIN m) \ {k} |-> m[x]]

MapGet(m, k) == IF k \in DOMAIN m THEN <<m[k]>> ELSE <<>>

EmptyMap == [x \in {} |-> x]

(***************************************************************************)
(* CSRFProtection (index.ts).                                              *)
(***************************************************************************)
\* 32 random bytes rendered as 64 hex digits: the n-th draw of the secure
\* random source, distinct from every earlier draw.
generateSecureToken(n) == "hex-" \o ToString(n)

IssuedTokens == {generateSecureToken(n) : n \in 1..issued}

\* Mutant: an existing record of the session is kept instead of overwritten.
generateToken_KeepExisting(tk, sessionId, token, t) ==
    [ret |-> token,
     tokens |-> IF sessionId \in DOMAIN tk
                THEN tk
                ELSE MapSet(tk, sessionId,
                            [token |-> token, expires |-> t + tokenExpiry,
                             used |-> FALSE])]

\* tokens.set(sessionId, {token, expires: now + tokenExpiry, used: false})
generateToken(tk, sessionId, token, t) ==
    [ret |-> token,
     tokens |-> MapSet(tk, sessionId,
                       [token |-> token, expires |-> t + tokenExpiry, used |-> FALSE])]

\* Mutant: a successful validation does not mark the record used.
validateToken_NoMark(tk, sessionId, providedToken, t) ==
    IF sessionId \notin DOMAIN tk
    THEN [ret |-> FALSE, tokens |-> tk]
    ELSE LET tokenData == tk[sessionId] IN
         IF tokenData.used
         THEN [ret |-> FALSE, tokens |-> tk]
         ELSE IF t > tokenData.expires
         THEN [ret |-> FALSE, tokens |-> MapDelete(tk, sessionId)]
         ELSE IF tokenData.token # providedToken
         THEN [ret |-> FALSE, tokens |-> tk]
         ELSE [ret |-> TRUE, tokens |-> tk]

\* Mutant: the record is looked up by token value in any session.
validateToken_AnySession(tk, sessionId, providedToken, t) ==
    LET owners == {s \in DOMAIN tk : tk[s].token = providedToken}
    IN  IF owners = {}
        THEN [ret |-> FALSE, tokens |-> tk]
        ELSE LET s == CHOOSE x \in owners : TRUE
                 tokenData == tk[s]
             IN  IF tokenData.used
                 THEN [ret |-> FALSE, tokens |-> tk]
                 ELSE IF t > tokenData.expires
                 THEN [ret |-> FALSE, tokens |-> MapDelete(tk, s)]
                 ELSE [ret |-> TRUE, tokens |-> [tk EXCEPT ![s].used = TRUE]]

\* Mutant: the expiry check is missing.
validateToken_NoExpiry(tk, sessionId, providedToken, t) ==
    IF sessionId \notin DOMAIN tk
    THEN [ret |-> FALSE, tokens |-> tk]
    ELSE LET tokenData == tk[sessionId] IN
         IF tokenData.used
         THEN [ret |-> FALSE, tokens |-> tk]
         ELSE IF tokenData.token # providedToken
         THEN [ret |-> FALSE, tokens |-> tk]
         ELSE [ret |-> TRUE, tokens |-> [tk EXCEPT ![sessionId].used = TRUE]]

\* Mutant: consumption deletes the record instead of marking it.
validateToken_DeleteOnUse(tk, sessionId, providedToken, t) ==
    IF sessionId \notin DOMAIN tk
    THEN [ret |-> FALSE, tokens |-> tk]
    ELSE LET tokenData == tk[sessionId] IN
         IF tokenData.used
         THEN [ret |-> FALSE, tokens |-> tk]
         ELSE IF t > tokenData.expires
         THEN [ret |-> FALSE, tokens |-> MapDelete(tk, sessionId)]
         ELSE IF tokenData.token # providedToken
         THEN [ret |-> FALSE, tokens |-> tk]
         ELSE [ret |-> TRUE, tokens |-> MapDelete(tk, sessionId)]

\* Mutant: an expired record is reported but left in the map.
validateToken_KeepExpired(tk, sessionId, providedToken, t) ==
    IF sessionId \notin DOMAIN tk
    THEN [ret |-> FALSE, tokens |-> tk]
    ELSE LET tokenData == tk[sessionId] IN
         IF tokenData.used
         THEN [ret |-> FALSE, tokens |-> tk]
         ELSE IF t > tokenData.expires
         THEN [ret |-> FALSE, tokens |-> tk]
         ELSE IF tokenData.token # providedToken
         THEN [ret |-> FALSE, tokens |-> tk]
         ELSE [ret |-> TRUE, tokens |-> [tk EXCEPT ![sessionId].used = TRUE]]

\* Mutant: a mismatching attempt burns the stored record.
validateToken_BurnOnMismatch(tk, sessionId, providedToken, t) ==
    IF sessionId \notin DOMAIN tk
    THEN [ret |-> FALSE, tokens |-> tk]
    ELSE LET tokenData == tk[sessionId] IN
         IF tokenData.used
         THEN [ret |-> FALSE, tokens |-> tk]
         ELSE IF t > tokenData.expires
         THEN [ret |-> FALSE, tokens |-> MapDelete(tk, sessionId)]
         ELSE IF tokenData.token # providedToken
         THEN [ret |-> FALSE, tokens |-> [tk EXCEPT ![sessionId].used = TRUE]]
         ELSE [ret |-> TRUE, tokens |-> [tk EXCEPT ![sessionId].used = TRUE]]

validateToken(tk, sessionId, providedToken, t) ==
    IF sessionId \notin DOMAIN tk
    THEN [ret |-> FALSE, tokens |-> tk]
    ELSE LET tokenData == tk[sessionId] IN
         IF tokenData.used
         THEN [ret |-> FALSE, tokens |-> tk]
         ELSE IF t > tokenData.expires
         THEN [ret |-> FALSE, tokens |-> MapDelete(tk, sessionId)]
         ELSE IF tokenData.token # providedToken
         THEN [ret |-> FALSE, tokens |-> tk]
         ELSE [ret |-> TRUE, tokens |-> [tk EXCEPT ![sessionId].used = TRUE]]

\* Mutant: the sweep removes expired records only.
cleanup_KeepUsed(tk, t) ==
    LET kept == {s \in DOMAIN tk : ~(t > tk[s].expires)}
    IN  [s \in kept |-> tk[s]]

cleanup(tk, t) ==
    LET kept == {s \in DOMAIN tk : ~(t > tk[s].expires \/ tk[s].used)}
    IN  [s \in kept |-> tk[s]]

(***************************************************************************)
(* SecurityMiddleware (middleware.ts): CSRF facade.                        *)
(***************************************************************************)
generateCSRFToken(config, tk, sessionId, token, t) ==
    IF ~config.enableCSRF
    THEN [ret |-> "", tokens |-> tk]
    ELSE generateToken(tk, sessionId, token, t)

\* Mutant: the enableCSRF flag is not consulted.
validateCSRFToken_IgnoreFlag(config, tk, sessionId, token, t) ==
    validateToken(tk, sessionId, token, t)

validateCSRFToken(config, tk, sessionId, token, t) ==
    IF ~config.enableCSRF
    THEN [ret |-> TRUE, tokens |-> tk]
    ELSE validateToken(tk, sessionId, token, t)

(***************************************************************************)
(* SecurityHeaders (index.ts).  A header value is the sequence of its      *)
(* directives: 'a; b' is <<"a", "b">>.                                     *)
(***************************************************************************)
\* {...a, ...b}: the keys of both, b's value where both have the key.
Spread(a, b) ==
    [k \in (DOMAIN a) \cup (DOMAIN b) |-> IF k \in DOMAIN b THEN b[k] ELSE a[k]]

NoHeaders == [k \in {} |-> <<>>]

getXSSHeaders ==
    [k \in {"X-XSS-Protection", "X-Content-Type-Options"} |->
        IF k = "X-XSS-Protection" THEN <<"1", "mode=block">> ELSE <<"nosniff">>]

getFrameHeaders == [k \in {"X-Frame-Options"} |-> <<"DENY">>]

getContentTypeHeaders == [k \in {"X-Content-Type-Options"} |-> <<"nosniff">>]

getHSTSHeaders ==
    [k \in {"Strict-Transport-Security"} |->
        <<"max-age=31536000", "includeSubDomains", "preload">>]

getReferrerHeaders ==
    [k \in {"Referrer-Policy"} |-> <<"strict-origin-when-cross-origin">>]

getPermissionHeaders ==
    [k \in {"Permissions-Policy"} |->
        <<"camera=()", "microphone=()", "geolocation=()", "payment=()">>]

getHeaders ==
    Spread(Spread(Spread(Spread(Spread(getXSSHeaders, getFrameHeaders),
                                getContentTypeHeaders),
                         getHSTSHeaders),
                  getReferrerHeaders),
           getPermissionHeaders)

applySecurityHeaders(config) ==
    IF ~config.enableSecurityHeaders THEN NoHeaders ELSE getHeaders

(***************************************************************************)
(* Values handed to the sanitizer.  A string is a sequence of atoms, each  *)
(* a run of plain text or one piece of markup; a JavaScript value is a     *)
(* record [kind, val].  An object is its own enumerable properties, in the *)
(* order JavaScript enumerates them, each a pair of a key (the sequence of *)
(* its characters) and a value, and its prototype: <<>> for                *)
(* Object.prototype, <<value>> for a prototype that was assigned.          *)
(***************************************************************************)
\* Body applied to the value of an expression: a local constant of the
\* code, computed once and then read as often as the code reads it.
LetValue(value, Body(_)) == CHOOSE result \in {Body(v) : v \in {value}} : TRUE

\* seqs[first] \o ... \o seqs[last]
RECURSIVE ConcatRange(_, _, _)
ConcatRange(seqs, first, last) ==
    IF first > last
    THEN <<>>
    ELSE IF first = last
    THEN seqs[first]
    ELSE LET middle == (first + last) \div 2
         IN  ConcatRange(seqs, first, middle) \o ConcatRange(seqs, middle + 1, last)

Digits == <<"0", "1", "2", "3", "4", "5", "6", "7", "8", "9">>

TextAtoms == {"hello", "user"}
MarkupAtoms == {"<script>alert(1)</script>", "<b>"}

JString(str) == [kind |-> "string", val |-> str]
JNumber(n) == [kind |-> "number", val |-> n]
JBoolean(b) == [kind |-> "boolean", val |-> b]
JNull == [kind |-> "null", val |-> <<>>]
JUndefined == [kind |-> "undefined", val |-> <<>>]
JObject(entries) == [kind |-> "object", val |-> entries, proto |-> <<>>]
JArray(items) == [kind |-> "array", val |-> items]
JFormData(entries) == [kind |-> "formdata", val |-> entries]
\* A File object made by the File class of the runtime `host`.
JFile(name, host) == [kind |-> "file", val |-> name, host |-> host]
Thrown(what) == [kind |-> "throw", val |-> what]

\* DOMPurify.sanitize(input, {ALLOWED_TAGS: [], ALLOWED_ATTR: []}): every
\* piece of markup is removed, the text around it is kept.
IsPlainText(atom) == atom \notin MarkupAtoms

DOMPurifySanitize(input) == SelectSeq(input, IsPlainText)

\* defaultSanitizer is built on defaultSecurityConfig, whose
\* enableXSSProtection is true.
enableXSSProtection == TRUE

sanitizeText(input) ==
    IF ~enableXSSProtection THEN input ELSE DOMPurifySanitize(input)

\* The UTF-16 code units of an atom; an atom not listed is one character.
CodeUnits(atom) ==
    CASE atom = "hello" ->
            <<"h", "e", "l", "l", "o">>
      [] atom = "user" ->
            <<"u", "s", "e", "r">>
      [] atom = "<b>" ->
            <<"<", "b", ">">>
      [] atom = "<script>alert(1)</script>" ->
            <<"<", "s", "c", "r", "i", "p", "t", ">", "a", "l", "e", "r", "t", "(", "1", ")", "<", "/", "s", "c", "r", "i", "p", "t", ">">>
      [] atom = "DROP" ->
            <<"D", "R", "O", "P">>
      [] atom = "INSERT" ->
            <<"I", "N", "S", "E", "R", "T">>
      [] atom = "UPDATE" ->
            <<"U", "P", "D", "A", "T", "E">>
      [] atom = "DELETE" ->
            <<"D", "E", "L", "E", "T", "E">>
      [] atom = "UNION" ->
            <<"U", "N", "I", "O", "N">>
      [] atom = "SELECT" ->
            <<"S", "E", "L", "E", "C", "T">>
      [] atom = "--" ->
            <<"-", "-">>
      [] atom = " TABLE users" ->
            <<" ", "T", "A", "B", "L", "E", " ", "u", "s", "e", "r", "s">>
      [] atom = " password FROM users" ->
            <<" ", "p", "a", "s", "s", "w", "o", "r", "d", " ", "F", "R", "O", "M", " ", "u", "s", "e", "r", "s">>
      [] atom = "binary-data" ->
            <<"b", "i", "n", "a", "r", "y", "-", "d", "a", "t", "a">>
      [] atom = "page" ->
            <<"p", "a", "g", "e">>
      [] atom = "q" ->
            <<"q">>
      [] OTHER -> <<atom>>

\* The code units of a string, atom after atom.
StringUnits(str) ==
    LET width == 32
        padded == [k \in 1..(width * Len(str)) |->
                      LET units == CodeUnits(str[((k - 1) \div width) + 1])
                          j == ((k - 1) % width) + 1
                      IN  IF j <= Len(units) THEN <<units[j]>> ELSE <<>>]
        present == SelectSeq(padded, LAMBDA u : u # <<>>)
    IN  [k \in 1..Len(present) |-> present[k][1]]

\* The decimal numeral of a natural number, as a key.
RECURSIVE DecimalKey(_)
DecimalKey(n) ==
    IF n < 10
    THEN <<Digits[n + 1]>>
    ELSE Append(DecimalKey(n \div 10), Digits[(n % 10) + 1])

IsDigit(c) == \E d \in 1..Len(Digits) : Digits[d] = c

DigitValue(c) == (CHOOSE d \in 1..Len(Digits) : Digits[d] = c) - 1

\* Numeric order of two numerals without leading zeros.
NumeralLess(a, b) ==
    \/ Len(a) < Len(b)
    \/ /\ Len(a) = Len(b)
       /\ \E i \in 1..Len(a) :
             /\ \A j \in 1..(i - 1) : a[j] = b[j]
             /\ DigitValue(a[i]) < DigitValue(b[i])

\* 2^32 - 2, the largest array index.
LargestArrayIndex == <<"4", "2", "9", "4", "9", "6", "7", "2", "9", "4">>

\* Property keys that are array indices ("0", "1", ..., "4294967294",
\* written without sign or leading zero) are enumerated first, in ascending
\* numeric order; the other string keys follow in the order of their
\* creation.
IsIndexKey(key) ==
    /\ Len(key) >= 1
    /\ \A i \in 1..Len(key) : IsDigit(key[i])
    /\ Len(key) = 1 \/ key[1] # "0"
    /\ ~NumeralLess(LargestArrayIndex, key)

PropertyOrder(entries) ==
    SortSeq(SelectSeq(entries, LAMBDA e : IsIndexKey(e[1])),
            LAMBDA a, b : NumeralLess(a[1], b[1]))
        \o SelectSeq(entries, LAMBDA e : ~IsIndexKey(e[1]))

HasOwnProperty(entries, key) == \E i \in 1..Len(entries) : entries[i][1] = key

ProtoKey == <<"_", "_", "p", "r", "o", "t", "o", "_", "_">>

\* The runtimes the middleware is loaded in that differ in their File class:
\* a Chromium browser and Node.
Hosts == {"chromium", "node"}

\* The accessors without setter that a File of the runtime inherits: name
\* and lastModified of File.prototype, size and type of Blob.prototype, and
\* in Chromium webkitRelativePath and lastModifiedDate of File.prototype as
\* well.
FileAccessors(host) ==
    {<<"n", "a", "m", "e">>,
     <<"s", "i", "z", "e">>,
     <<"t", "y", "p", "e">>,
     <<"l", "a", "s", "t", "M", "o", "d", "i", "f", "i", "e", "d">>}
        \cup IF host = "chromium"
             THEN {<<"w", "e", "b", "k", "i", "t", "R", "e", "l", "a", "t", "i", "v", "e",
                     "P", "a", "t", "h">>,
                   <<"l", "a", "s", "t", "M", "o", "d", "i", "f", "i", "e", "d",
                     "D", "a", "t", "e">>}
             ELSE {}

\* The __proto__ accessor of Object.prototype is found along the prototype
\* chain: not under a null prototype, nor behind an own data property of
\* that name.
RECURSIVE InheritsProtoAccessor(_)
InheritsProtoAccessor(proto) ==
    IF proto = <<>>
    THEN TRUE
    ELSE CASE proto[1].kind = "null" -> FALSE
           [] proto[1].kind = "object" ->
                 /\ ~HasOwnProperty(proto[1].val, ProtoKey)
                 /\ InheritsProtoAccessor(proto[1].proto)
           [] OTHER -> TRUE

\* The key names an accessor without setter found along the prototype
\* chain before any data property of that name.
RECURSIVE InheritsReadOnly(_, _)
InheritsReadOnly(proto, key) ==
    IF proto = <<>>
    THEN FALSE
    ELSE CASE proto[1].kind = "file" -> key \in FileAccessors(proto[1].host)
           [] proto[1].kind = "object" ->
                 /\ ~HasOwnProperty(proto[1].val, key)
                 /\ InheritsReadOnly(proto[1].proto, key)
           [] OTHER -> FALSE

\* sanitized[key] = value on the object built so far, in strict code.  An
\* own key keeps its place and takes the new value; a new key takes its
\* place in the property order.  Where the __proto__ accessor is inherited,
\* the key "__proto__" creates no property: an object or null becomes the
\* prototype of `sanitized`, any other value is ignored.  A key that names
\* an inherited accessor without setter (name, size, type, lastModified
\* once a File is the prototype, and in Chromium webkitRelativePath and
\* lastModifiedDate too) raises a TypeError.
ObjectAssign(sanitized, key, value) ==
    IF HasOwnProperty(sanitized.val, key)
    THEN [sanitized EXCEPT !.val =
            [i \in 1..Len(@) |-> IF @[i][1] = key THEN <<key, value>> ELSE @[i]]]
    ELSE IF key = ProtoKey /\ InheritsProtoAccessor(sanitized.proto)
    THEN IF value.kind \in {"object", "array", "file", "formdata", "null"}
         THEN [sanitized EXCEPT !.proto = <<value>>]
         ELSE sanitized
    ELSE IF InheritsReadOnly(sanitized.proto, key)
    THEN Thrown("TypeError")
    ELSE [sanitized EXCEPT !.val = PropertyOrder(Append(@, <<key, value>>))]

\* Object.entries(value): own enumerable properties in property order; the
\* indices of an array; one entry per UTF-16 code unit of a string; nothing
\* for a number, a boolean or a File (null and undefined raise a TypeError
\* in the caller).
ObjectEntries(value) ==
    CASE value.kind = "object" -> PropertyOrder(value.val)
      [] value.kind = "array" ->
            [i \in 1..Len(value.val) |-> <<DecimalKey(i - 1), value.val[i]>>]
      [] value.kind = "string" ->
            LET units == StringUnits(value.val)
            IN  [i \in 1..Len(units) |->
                    <<DecimalKey(i - 1), JString(<<units[i]>>)>>]
      [] OTHER -> <<>>

RECURSIVE sanitizeEntries(_, _, _)
RECURSIVE sanitizeFormData(_, _)

\* Mutant: only the strings of the top level are sanitized; a nested object
\* is stored as it came.
sanitizeEntries_Shallow(config, entries, sanitized) ==
    IF entries = <<>> \/ sanitized.kind = "throw"
    THEN sanitized
    ELSE LET key == entries[1][1]
             value == entries[1][2]
             out == IF value.kind = "string"
                    THEN JString(sanitizeText(value.val))
                    ELSE value
         IN  LetValue(ObjectAssign(sanitized, key, out),
                      LAMBDA next : sanitizeEntries(config, Tail(entries), next))

\* The for-loop of sanitizeFormData over the entries still to come, with
\* the object built so far; an exception raised by a nested call or by an
\* assignment ends the loop and is the outcome.
sanitizeEntries(config, entries, sanitized) ==
    IF entries = <<>> \/ sanitized.kind = "throw"
    THEN sanitized
    ELSE LET key == entries[1][1]
             value == entries[1][2]
         IN  LetValue(IF value.kind = "string"
                      THEN JString(sanitizeText(value.val))
                      ELSE IF value.kind \in {"object", "array", "file", "formdata"}
                      THEN sanitizeFormData(config, value)
                      ELSE value,
                      LAMBDA out :
                         IF out.kind = "throw"
                         THEN out
                         ELSE LetValue(ObjectAssign(sanitized, key, out),
                                       LAMBDA next :
                                          sanitizeEntries(config, Tail(entries), next)))

\* The FormData branch: string entries are sanitized, File entries kept.
RECURSIVE sanitizeFormDataEntries(_, _)
sanitizeFormDataEntries(entries, sanitized) ==
    IF entries = <<>> \/ sanitized.kind = "throw"
    THEN sanitized
    ELSE LET key == entries[1][1]
             value == entries[1][2]
             out == IF value.kind = "string"
                    THEN JString(sanitizeText(value.val))
                    ELSE value
         IN  LetValue(ObjectAssign(sanitized, key, out),
                      LAMBDA next : sanitizeFormDataEntries(Tail(entries), next))

sanitizeFormData(config, formData) ==
    IF ~config.enableInputSanitization
    THEN formData
    ELSE IF formData.kind = "formdata"
    THEN sanitizeFormDataEntries(formData.val, JObject(<<>>))
    ELSE IF formData.kind \in {"null", "undefined"}
    THEN Thrown("TypeError")
    ELSE LetValue(ObjectEntries(formData),
                  LAMBDA entries : sanitizeEntries(config, entries, JObject(<<>>)))

\* The argument object as the call leaves it: sanitizeFormData assigns only
\* to properties of the new object `sanitized`, at every level.
formDataAfter(config, formData) == formData

\* URLSearchParams in, URLSearchParams out: every key and value through
\* defaultSanitizer.sanitizeText, whatever the instance's config.
sanitizeURLParams(config, params) ==
    [i \in 1..Len(params) |->
        <<sanitizeText(params[i][1]), sanitizeText(params[i][2])>>]

(***************************************************************************)
(* JSON text.  A string whose JSON.parse gives V is [kind |-> "jsontext",  *)
(* val |-> V]; any other string is [kind |-> "text"].                      *)
(***************************************************************************)
JSONText(value) == [kind |-> "jsontext", val |-> value]

JSONParse(body) ==
    IF body.kind = "jsontext"
    THEN [ok |-> TRUE, value |-> body.val]
    ELSE [ok |-> FALSE, value |-> JUndefined]

RECURSIVE JSONForm(_)
\* What JSON.stringify writes of a value: an object without its undefined
\* properties, an array with null for undefined.
JSONForm(value) ==
    CASE value.kind = "object" ->
            LET kept == SelectSeq(value.val, LAMBDA e : e[2].kind # "undefined")
            IN  JObject([i \in 1..Len(kept) |-> <<kept[i][1], JSONForm(kept[i][2])>>])
      [] value.kind = "array" ->
            JArray([i \in 1..Len(value.val) |->
                      IF value.val[i].kind = "undefined"
                      THEN JNull
                      ELSE JSONForm(value.val[i])])
      [] OTHER -> value

JSONStringify(value) == JSONText(JSONForm(value))

(***************************************************************************)
(* SecurityMiddleware.secureFetch and getSessionId (middleware.ts).  An    *)
(* HTTP method is its sequence of characters; <<>> is an absent or empty   *)
(* method, which the wrapper treats alike.                                 *)
(***************************************************************************)
LowerCaseLetters ==
    <<"a", "b", "c", "d", "e", "f", "g", "h", "i", "j", "k", "l", "m",
      "n", "o", "p", "q", "r", "s", "t", "u", "v", "w", "x", "y", "z">>

UpperCaseLetters ==
    <<"A", "B", "C", "D", "E", "F", "G", "H", "I", "J", "K", "L", "M",
      "N", "O", "P", "Q", "R", "S", "T", "U", "V", "W", "X", "Y", "Z">>

(***************************************************************************)
(* Characters.  A string is the sequence of its UTF-16 code units.  A code *)
(* unit up to U+00FF that prints is written as itself ("e", "é"), the      *)
(* grave accent excepted; every other code unit is written by its number,  *)
(* "U+0060", "U+017F".  A character is one code unit, or the two           *)
(* surrogates of a code point above U+FFFF.                                *)
(***************************************************************************)
\* The names of the code units U+0000 to U+00FF.
Latin1Characters ==
    <<"U+0000", "U+0001", "U+0002", "U+0003", "U+0004", "U+0005", "U+0006", "U+0007",
      "U+0008", "U+0009", "U+000A", "U+000B", "U+000C", "U+000D", "U+000E", "U+000F",
      "U+0010", "U+0011", "U+0012", "U+0013", "U+0014", "U+0015", "U+0016", "U+0017",
      "U+0018", "U+0019", "U+001A", "U+001B", "U+001C", "U+001D", "U+001E", "U+001F",
      " ", "!", "\"", "#", "$", "%", "&", "'",
      "(", ")", "*", "+", ",", "-", ".", "/",
      "0", "1", "2", "3", "4", "5", "6", "7",
      "8", "9", ":", ";", "<", "=", ">", "?",
      "@", "A", "B", "C", "D", "E", "F", "G",
      "H", "I", "J", "K", "L", "M", "N", "O",
      "P", "Q", "R", "S", "T", "U", "V", "W",
      "X", "Y", "Z", "[", "\\", "]", "^", "_",
      "U+0060", "a", "b", "c", "d", "e", "f", "g",
      "h", "i", "j", "k", "l", "m", "n", "o",
      "p", "q", "r", "s", "t", "u", "v", "w",
      "x", "y", "z", "{", "|", "}", "~", "U+007F",
      "U+0080", "U+0081", "U+0082", "U+0083", "U+0084", "U+0085", "U+0086", "U+0087",
      "U+0088", "U+0089", "U+008A", "U+008B", "U+008C", "U+008D", "U+008E", "U+008F",
      "U+0090", "U+0091", "U+0092", "U+0093", "U+0094", "U+0095", "U+0096", "U+0097",
      "U+0098", "U+0099", "U+009A", "U+009B", "U+009C", "U+009D", "U+009E", "U+009F",
      "U+00A0", "¡", "¢", "£", "¤", "¥", "¦", "§",
      "¨", "©", "ª", "«", "¬", "­", "®", "¯",
      "°", "±", "²", "³", "´", "µ", "¶", "·",
      "¸", "¹", "º", "»", "¼", "½", "¾", "¿",
      "À", "Á", "Â", "Ã", "Ä", "Å", "Æ", "Ç",
      "È", "É", "Ê", "Ë", "Ì", "Í", "Î", "Ï",
      "Ð", "Ñ", "Ò", "Ó", "Ô", "Õ", "Ö", "×",
      "Ø", "Ù", "Ú", "Û", "Ü", "Ý", "Þ", "ß",
      "à", "á", "â", "ã", "ä", "å", "æ", "ç",
      "è", "é", "ê", "ë", "ì", "í", "î", "ï",
      "ð", "ñ", "ò", "ó", "ô", "õ", "ö", "÷",
      "ø", "ù", "ú", "û", "ü", "ý", "þ", "ÿ">>

CodeUnit(n) ==
    LET HexDigits == <<"0", "1", "2", "3", "4", "5", "6", "7",
                       "8", "9", "A", "B", "C", "D", "E", "F">>
    IN  IF n < 256
        THEN Latin1Characters[n + 1]
        ELSE "U+" \o HexDigits[(n \div 4096) + 1] \o HexDigits[((n \div 256) % 16) + 1]
                  \o HexDigits[((n \div 16) % 16) + 1] \o HexDigits[(n % 16) + 1]

\* The code units of the code point n.
Character(n) ==
    IF n < 65536
    THEN <<CodeUnit(n)>>
    ELSE <<CodeUnit(\HD800 + ((n - 65536) \div 1024)),
           CodeUnit(\HDC00 + ((n - 65536) % 1024))>>

HighSurrogates == {CodeUnit(n) : n \in \HD800..\HDBFF}

LowSurrogates == {CodeUnit(n) : n \in \HDC00..\HDFFF}

\* The characters of a string, in order: a high surrogate followed by a low
\* surrogate is one character, any other code unit is a character alone.
Characters(str) ==
    LET at == [i \in 1..Len(str) |->
                  IF str[i] \in HighSurrogates /\ i < Len(str)
                        /\ str[i + 1] \in LowSurrogates
                  THEN <<str[i], str[i + 1]>>
                  ELSE IF str[i] \in LowSurrogates /\ i > 1
                        /\ str[i - 1] \in HighSurrogates
                  THEN <<>>
                  ELSE <<str[i]>>]
    IN  SelectSeq(at, LAMBDA ch : ch # <<>>)

(***************************************************************************)
(* String.prototype.toUpperCase and toLowerCase: the case conversion of    *)
(* the Unicode Standard, independent of the locale.  The tables are those  *)
(* of Unicode 17.  <<first, last, step, delta>> maps every step-th code    *)
(* point n of first..last to n + delta.                                    *)
(***************************************************************************)
CaseRun(first, last, step, delta) ==
    {<<Character(n), Character(n + delta)>> :
        n \in {m \in first..last : (m - first) % step = 0}}

UpperCaseRuns ==
    {<<\H0061, \H007A, 1, -32>>, <<\H00B5, \H00B5, 1, 743>>,
     <<\H00E0, \H00F6, 1, -32>>, <<\H00F8, \H00FE, 1, -32>>,
     <<\H00FF, \H00FF, 1, 121>>, <<\H0101, \H012F, 2, -1>>,
     <<\H0131, \H0131, 1, -232>>, <<\H0133, \H0137, 2, -1>>,
     <<\H013A, \H0148, 2, -1>>, <<\H014B, \H0177, 2, -1>>,
     <<\H017A, \H017E, 2, -1>>, <<\H017F, \H017F, 1, -300>>,
     <<\H0180, \H0180, 1, 195>>, <<\H0183, \H0185, 2, -1>>,
     <<\H0188, \H0188, 1, -1>>, <<\H018C, \H018C, 1, -1>>,
     <<\H0192, \H0192, 1, -1>>, <<\H0195, \H0195, 1, 97>>,
     <<\H0199, \H0199, 1, -1>>, <<\H019A, \H019A, 1, 163>>,
     <<\H019B, \H019B, 1, 42561>>, <<\H019E, \H019E, 1, 130>>,
     <<\H01A1, \H01A5, 2, -1>>, <<\H01A8, \H01A8, 1, -1>>,
     <<\H01AD, \H01AD, 1, -1>>, <<\H01B0, \H01B0, 1, -1>>,
     <<\H01B4, \H01B6, 2, -1>>, <<\H01B9, \H01B9, 1, -1>>,
     <<\H01BD, \H01BD, 1, -1>>, <<\H01BF, \H01BF, 1, 56>>,
     <<\H01C5, \H01C5, 1, -1>>, <<\H01C6, \H01C6, 1, -2>>,
     <<\H01C8, \H01C8, 1, -1>>, <<\H01C9, \H01C9, 1, -2>>,
     <<\H01CB, \H01CB, 1, -1>>, <<\H01CC, \H01CC, 1, -2>>,
     <<\H01CE, \H01DC, 2, -1>>, <<\H01DD, \H01DD, 1, -79>>,
     <<\H01DF, \H01EF, 2, -1>>, <<\H01F2, \H01F2, 1, -1>>,
     <<\H01F3, \H01F3, 1, -2>>, <<\H01F5, \H01F5, 1, -1>>,
     <<\H01F9, \H021F, 2, -1>>, <<\H0223, \H0233, 2, -1>>,
     <<\H023C, \H023C, 1, -1>>, <<\H023F, \H0240, 1, 10815>>,
     <<\H0242, \H0242, 1, -1>>, <<\H0247, \H024F, 2, -1>>,
     <<\H0250, \H0250, 1, 10783>>, <<\H0251, \H0251, 1, 10780>>,
     <<\H0252, \H0252, 1, 10782>>, <<\H0253, \H0253, 1, -210>>,
     <<\H0254, \H0254, 1, -206>>, <<\H0256, \H0257, 1, -205>>,
     <<\H0259, \H0259, 1, -202>>, <<\H025B, \H025B, 1, -203>>,
     <<\H025C, \H025C, 1, 42319>>, <<\H0260, \H0260, 1, -205>>,
     <<\H0261, \H0261, 1, 42315>>, <<\H0263, \H0263, 1, -207>>,
     <<\H0264, \H0264, 1, 42343>>, <<\H0265, \H0265, 1, 42280>>,
     <<\H0266, \H0266, 1, 42308>>, <<\H0268, \H0268, 1, -209>>,
     <<\H0269, \H0269, 1, -211>>, <<\H026A, \H026A, 1, 42308>>,
     <<\H026B, \H026B, 1, 10743>>, <<\H026C, \H026C, 1, 42305>>,
     <<\H026F, \H026F, 1, -211>>, <<\H0271, \H0271, 1, 10749>>,
     <<\H0272, \H0272, 1, -213>>, <<\H0275, \H0275, 1, -214>>,
     <<\H027D, \H027D, 1, 10727>>, <<\H0280, \H0280, 1, -218>>,
     <<\H0282, \H0282, 1, 42307>>, <<\H0283, \H0283, 1, -218>>,
     <<\H0287, \H0287, 1, 42282>>, <<\H0288, \H0288, 1, -218>>,
     <<\H0289, \H0289, 1, -69>>, <<\H028A, \H028B, 1, -217>>,
     <<\H028C, \H028C, 1, -71>>, <<\H0292, \H0292, 1, -219>>,
     <<\H029D, \H029D, 1, 42261>>, <<\H029E, \H029E, 1, 42258>>,
     <<\H0345, \H0345, 1, 84>>, <<\H0371, \H0373, 2, -1>>,
     <<\H0377, \H0377, 1, -1>>, <<\H037B, \H037D, 1, 130>>,
     <<\H03AC, \H03AC, 1, -38>>, <<\H03AD, \H03AF, 1, -37>>,
     <<\H03B1, \H03C1, 1, -32>>, <<\H03C2, \H03C2, 1, -31>>,
     <<\H03C3, \H03CB, 1, -32>>, <<\H03CC, \H03CC, 1, -64>>,
     <<\H03CD, \H03CE, 1, -63>>, <<\H03D0, \H03D0, 1, -62>>,
     <<\H03D1, \H03D1, 1, -57>>, <<\H03D5, \H03D5, 1, -47>>,
     <<\H03D6, \H03D6, 1, -54>>, <<\H03D7, \H03D7, 1, -8>>,
     <<\H03D9, \H03EF, 2, -1>>, <<\H03F0, \H03F0, 1, -86>>,
     <<\H03F1, \H03F1, 1, -80>>, <<\H03F2, \H03F2, 1, 7>>,
     <<\H03F3, \H03F3, 1, -116>>, <<\H03F5, \H03F5, 1, -96>>,
     <<\H03F8, \H03F8, 1, -1>>, <<\H03FB, \H03FB, 1, -1>>,
     <<\H0430, \H044F, 1, -32>>, <<\H0450, \H045F, 1, -80>>,
     <<\H0461, \H0481, 2, -1>>, <<\H048B, \H04BF, 2, -1>>,
     <<\H04C2, \H04CE, 2, -1>>, <<\H04CF, \H04CF, 1, -15>>,
     <<\H04D1, \H052F, 2, -1>>, <<\H0561, \H0586, 1, -48>>,
     <<\H10D0, \H10FA, 1, 3008>>, <<\H10FD, \H10FF, 1, 3008>>,
     <<\H13F8, \H13FD, 1, -8>>, <<\H1C80, \H1C80, 1, -6254>>,
     <<\H1C81, \H1C81, 1, -6253>>, <<\H1C82, \H1C82, 1, -6244>>,
     <<\H1C83, \H1C84, 1, -6242>>, <<\H1C85, \H1C85, 1, -6243>>,
     <<\H1C86, \H1C86, 1, -6236>>, <<\H1C87, \H1C87, 1, -6181>>,
     <<\H1C88, \H1C88, 1, 35266>>, <<\H1C8A, \H1C8A, 1, -1>>,
     <<\H1D79, \H1D79, 1, 35332>>, <<\H1D7D, \H1D7D, 1, 3814>>,
     <<\H1D8E, \H1D8E, 1, 35384>>, <<\H1E01, \H1E95, 2, -1>>,
     <<\H1E9B, \H1E9B, 1, -59>>, <<\H1EA1, \H1EFF, 2, -1>>,
     <<\H1F00, \H1F07, 1, 8>>, <<\H1F10, \H1F15, 1, 8>>,
     <<\H1F20, \H1F27, 1, 8>>, <<\H1F30, \H1F37, 1, 8>>,
     <<\H1F40, \H1F45, 1, 8>>, <<\H1F51, \H1F57, 2, 8>>,
     <<\H1F60, \H1F67, 1, 8>>, <<\H1F70, \H1F71, 1, 74>>,
     <<\H1F72, \H1F75, 1, 86>>, <<\H1F76, \H1F77, 1, 100>>,
     <<\H1F78, \H1F79, 1, 128>>, <<\H1F7A, \H1F7B, 1, 112>>,
     <<\H1F7C, \H1F7D, 1, 126>>, <<\H1FB0, \H1FB1, 1, 8>>,
     <<\H1FBE, \H1FBE, 1, -7205>>, <<\H1FD0, \H1FD1, 1, 8>>,
     <<\H1FE0, \H1FE1, 1, 8>>, <<\H1FE5, \H1FE5, 1, 7>>,
     <<\H214E, \H214E, 1, -28>>, <<\H2170, \H217F, 1, -16>>,
     <<\H2184, \H2184, 1, -1>>, <<\H24D0, \H24E9, 1, -26>>,
     <<\H2C30, \H2C5F, 1, -48>>, <<\H2C61, \H2C61, 1, -1>>,
     <<\H2C65, \H2C65, 1, -10795>>, <<\H2C66, \H2C66, 1, -10792>>,
     <<\H2C68, \H2C6C, 2, -1>>, <<\H2C73, \H2C73, 1, -1>>,
     <<\H2C76, \H2C76, 1, -1>>, <<\H2C81, \H2CE3, 2, -1>>,
     <<\H2CEC, \H2CEE, 2, -1>>, <<\H2CF3, \H2CF3, 1, -1>>,
     <<\H2D00, \H2D25, 1, -7264>>, <<\H2D27, \H2D27, 1, -7264>>,
     <<\H2D2D, \H2D2D, 1, -7264>>, <<\HA641, \HA66D, 2, -1>>,
     <<\HA681, \HA69B, 2, -1>>, <<\HA723, \HA72F, 2, -1>>,
     <<\HA733, \HA76F, 2, -1>>, <<\HA77A, \HA77C, 2, -1>>,
     <<\HA77F, \HA787, 2, -1>>, <<\HA78C, \HA78C, 1, -1>>,
     <<\HA791, \HA793, 2, -1>>, <<\HA794, \HA794, 1, 48>>,
     <<\HA797, \HA7A9, 2, -1>>, <<\HA7B5, \HA7C3, 2, -1>>,
     <<\HA7C8, \HA7CA, 2, -1>>, <<\HA7CD, \HA7DB, 2, -1>>,
     <<\HA7F6, \HA7F6, 1, -1>>, <<\HAB53, \HAB53, 1, -928>>,
     <<\HAB70, \HABBF, 1, -38864>>, <<\HFF41, \HFF5A, 1, -32>>,
     <<\H10428, \H1044F, 1, -40>>, <<\H104D8, \H104FB, 1, -40>>,
     <<\H10597, \H105A1, 1, -39>>, <<\H105A3, \H105B1, 1, -39>>,
     <<\H105B3, \H105B9, 1, -39>>, <<\H105BB, \H105BC, 1, -39>>,
     <<\H10CC0, \H10CF2, 1, -64>>, <<\H10D70, \H10D85, 1, -32>>,
     <<\H118C0, \H118DF, 1, -32>>, <<\H16E60, \H16E7F, 1, -32>>,
     <<\H16EBB, \H16ED3, 1, -27>>, <<\H1E922, \H1E943, 1, -34>>}

\* The code points whose upper case is more than one code point.
UpperCaseSpecial ==
    {<<\H00DF, <<\H0053, \H0053>>>>, <<\H0149, <<\H02BC, \H004E>>>>,
     <<\H01F0, <<\H004A, \H030C>>>>, <<\H0390, <<\H0399, \H0308, \H0301>>>>,
     <<\H03B0, <<\H03A5, \H0308, \H0301>>>>, <<\H0587, <<\H0535, \H0552>>>>,
     <<\H1E96, <<\H0048, \H0331>>>>, <<\H1E97, <<\H0054, \H0308>>>>,
     <<\H1E98, <<\H0057, \H030A>>>>, <<\H1E99, <<\H0059, \H030A>>>>,
     <<\H1E9A, <<\H0041, \H02BE>>>>, <<\H1F50, <<\H03A5, \H0313>>>>,
     <<\H1F52, <<\H03A5, \H0313, \H0300>>>>, <<\H1F54, <<\H03A5, \H0313, \H0301>>>>,
     <<\H1F56, <<\H03A5, \H0313, \H0342>>>>, <<\H1F80, <<\H1F08, \H0399>>>>,
     <<\H1F81, <<\H1F09, \H0399>>>>, <<\H1F82, <<\H1F0A, \H0399>>>>,
     <<\H1F83, <<\H1F0B, \H0399>>>>, <<\H1F84, <<\H1F0C, \H0399>>>>,
     <<\H1F85, <<\H1F0D, \H0399>>>>, <<\H1F86, <<\H1F0E, \H0399>>>>,
     <<\H1F87, <<\H1F0F, \H0399>>>>, <<\H1F88, <<\H1F08, \H0399>>>>,
     <<\H1F89, <<\H1F09, \H0399>>>>, <<\H1F8A, <<\H1F0A, \H0399>>>>,
     <<\H1F8B, <<\H1F0B, \H0399>>>>, <<\H1F8C, <<\H1F0C, \H0399>>>>,
     <<\H1F8D, <<\H1F0D, \H0399>>>>, <<\H1F8E, <<\H1F0E, \H0399>>>>,
     <<\H1F8F, <<\H1F0F, \H0399>>>>, <<\H1F90, <<\H1F28, \H0399>>>>,
     <<\H1F91, <<\H1F29, \H0399>>>>, <<\H1F92, <<\H1F2A, \H0399>>>>,
     <<\H1F93, <<\H1F2B, \H0399>>>>, <<\H1F94, <<\H1F2C, \H0399>>>>,
     <<\H1F95, <<\H1F2D, \H0399>>>>, <<\H1F96, <<\H1F2E, \H0399>>>>,
     <<\H1F97, <<\H1F2F, \H0399>>>>, <<\H1F98, <<\H1F28, \H0399>>>>,
     <<\H1F99, <<\H1F29, \H0399>>>>, <<\H1F9A, <<\H1F2A, \H0399>>>>,
     <<\H1F9B, <<\H1F2B, \H0399>>>>, <<\H1F9C, <<\H1F2C, \H0399>>>>,
     <<\H1F9D, <<\H1F2D, \H0399>>>>, <<\H1F9E, <<\H1F2E, \H0399>>>>,
     <<\H1F9F, <<\H1F2F, \H0399>>>>, <<\H1FA0, <<\H1F68, \H0399>>>>,
     <<\H1FA1, <<\H1F69, \H0399>>>>, <<\H1FA2, <<\H1F6A, \H0399>>>>,
     <<\H1FA3, <<\H1F6B, \H0399>>>>, <<\H1FA4, <<\H1F6C, \H0399>>>>,
     <<\H1FA5, <<\H1F6D, \H0399>>>>, <<\H1FA6, <<\H1F6E, \H0399>>>>,
     <<\H1FA7, <<\H1F6F, \H0399>>>>, <<\H1FA8, <<\H1F68, \H0399>>>>,
     <<\H1FA9, <<\H1F69, \H0399>>>>, <<\H1FAA, <<\H1F6A, \H0399>>>>,
     <<\H1FAB, <<\H1F6B, \H0399>>>>, <<\H1FAC, <<\H1F6C, \H0399>>>>,
     <<\H1FAD, <<\H1F6D, \H0399>>>>, <<\H1FAE, <<\H1F6E, \H0399>>>>,
     <<\H1FAF, <<\H1F6F, \H0399>>>>, <<\H1FB2, <<\H1FBA, \H0399>>>>,
     <<\H1FB3, <<\H0391, \H0399>>>>, <<\H1FB4, <<\H0386, \H0399>>>>,
     <<\H1FB6, <<\H0391, \H0342>>>>, <<\H1FB7, <<\H0391, \H0342, \H0399>>>>,
     <<\H1FBC, <<\H0391, \H0399>>>>, <<\H1FC2, <<\H1FCA, \H0399>>>>,
     <<\H1FC3, <<\H0397, \H0399>>>>, <<\H1FC4, <<\H0389, \H0399>>>>,
     <<\H1FC6, <<\H0397, \H0342>>>>, <<\H1FC7, <<\H0397, \H0342, \H0399>>>>,
     <<\H1FCC, <<\H0397, \H0399>>>>, <<\H1FD2, <<\H0399, \H0308, \H0300>>>>,
     <<\H1FD3, <<\H0399, \H0308, \H0301>>>>, <<\H1FD6, <<\H0399, \H0342>>>>,
     <<\H1FD7, <<\H0399, \H0308, \H0342>>>>, <<\H1FE2, <<\H03A5, \H0308, \H0300>>>>,
     <<\H1FE3, <<\H03A5, \H0308, \H0301>>>>, <<\H1FE4, <<\H03A1, \H0313>>>>,
     <<\H1FE6, <<\H03A5, \H0342>>>>, <<\H1FE7, <<\H03A5, \H0308, \H0342>>>>,
     <<\H1FF2, <<\H1FFA, \H0399>>>>, <<\H1FF3, <<\H03A9, \H0399>>>>,
     <<\H1FF4, <<\H038F, \H0399>>>>, <<\H1FF6, <<\H03A9, \H0342>>>>,
     <<\H1FF7, <<\H03A9, \H0342, \H0399>>>>, <<\H1FFC, <<\H03A9, \H0399>>>>,
     <<\HFB00, <<\H0046, \H0046>>>>, <<\HFB01, <<\H0046, \H0049>>>>,
     <<\HFB02, <<\H0046, \H004C>>>>, <<\HFB03, <<\H0046, \H0046, \H0049>>>>,
     <<\HFB04, <<\H0046, \H0046, \H004C>>>>, <<\HFB05, <<\H0053, \H0054>>>>,
     <<\HFB06, <<\H0053, \H0054>>>>, <<\HFB13, <<\H0544, \H0546>>>>,
     <<\HFB14, <<\H0544, \H0535>>>>, <<\HFB15, <<\H0544, \H053B>>>>,
     <<\HFB16, <<\H054E, \H0546>>>>, <<\HFB17, <<\H0544, \H053D>>>>}

\* The characters toUpperCase changes, each with the code units it becomes.
UpperCaseMap ==
    LET pairs == UNION {CaseRun(r[1], r[2], r[3], r[4]) : r \in UpperCaseRuns}
                    \cup {<<Character(e[1]), [j \in 1..Len(e[2]) |-> CodeUnit(e[2][j])]>> :
                            e \in UpperCaseSpecial}
    IN  [ch \in {p[1] : p \in pairs} |-> (CHOOSE p \in pairs : p[1] = ch)[2]]

LowerCaseRuns ==
    {<<\H0041, \H005A, 1, 32>>, <<\H00C0, \H00D6, 1, 32>>,
     <<\H00D8, \H00DE, 1, 32>>, <<\H0100, \H012E, 2, 1>>,
     <<\H0132, \H0136, 2, 1>>, <<\H0139, \H0147, 2, 1>>,
     <<\H014A, \H0176, 2, 1>>, <<\H0178, \H0178, 1, -121>>,
     <<\H0179, \H017D, 2, 1>>, <<\H0181, \H0181, 1, 210>>,
     <<\H0182, \H0184, 2, 1>>, <<\H0186, \H0186, 1, 206>>,
     <<\H0187, \H0187, 1, 1>>, <<\H0189, \H018A, 1, 205>>,
     <<\H018B, \H018B, 1, 1>>, <<\H018E, \H018E, 1, 79>>,
     <<\H018F, \H018F, 1, 202>>, <<\H0190, \H0190, 1, 203>>,
     <<\H0191, \H0191, 1, 1>>, <<\H0193, \H0193, 1, 205>>,
     <<\H0194, \H0194, 1, 207>>, <<\H0196, \H0196, 1, 211>>,
     <<\H0197, \H0197, 1, 209>>, <<\H0198, \H0198, 1, 1>>,
     <<\H019C, \H019C, 1, 211>>, <<\H019D, \H019D, 1, 213>>,
     <<\H019F, \H019F, 1, 214>>, <<\H01A0, \H01A4, 2, 1>>,
     <<\H01A6, \H01A6, 1, 218>>, <<\H01A7, \H01A7, 1, 1>>,
     <<\H01A9, \H01A9, 1, 218>>, <<\H01AC, \H01AC, 1, 1>>,
     <<\H01AE, \H01AE, 1, 218>>, <<\H01AF, \H01AF, 1, 1>>,
     <<\H01B1, \H01B2, 1, 217>>, <<\H01B3, \H01B5, 2, 1>>,
     <<\H01B7, \H01B7, 1, 219>>, <<\H01B8, \H01B8, 1, 1>>,
     <<\H01BC, \H01BC, 1, 1>>, <<\H01C4, \H01C4, 1, 2>>,
     <<\H01C5, \H01C5, 1, 1>>, <<\H01C7, \H01C7, 1, 2>>,
     <<\H01C8, \H01C8, 1, 1>>, <<\H01CA, \H01CA, 1, 2>>,
     <<\H01CB, \H01DB, 2, 1>>, <<\H01DE, \H01EE, 2, 1>>,
     <<\H01F1, \H01F1, 1, 2>>, <<\H01F2, \H01F4, 2, 1>>,
     <<\H01F6, \H01F6, 1, -97>>, <<\H01F7, \H01F7, 1, -56>>,
     <<\H01F8, \H021E, 2, 1>>, <<\H0220, \H0220, 1, -130>>,
     <<\H0222, \H0232, 2, 1>>, <<\H023A, \H023A, 1, 10795>>,
     <<\H023B, \H023B, 1, 1>>, <<\H023D, \H023D, 1, -163>>,
     <<\H023E, \H023E, 1, 10792>>, <<\H0241, \H0241, 1, 1>>,
     <<\H0243, \H0243, 1, -195>>, <<\H0244, \H0244, 1, 69>>,
     <<\H0245, \H0245, 1, 71>>, <<\H0246, \H024E, 2, 1>>,
     <<\H0370, \H0372, 2, 1>>, <<\H0376, \H0376, 1, 1>>,
     <<\H037F, \H037F, 1, 116>>, <<\H0386, \H0386, 1, 38>>,
     <<\H0388, \H038A, 1, 37>>, <<\H038C, \H038C, 1, 64>>,
     <<\H038E, \H038F, 1, 63>>, <<\H0391, \H03A1, 1, 32>>,
     <<\H03A3, \H03AB, 1, 32>>, <<\H03CF, \H03CF, 1, 8>>,
     <<\H03D8, \H03EE, 2, 1>>, <<\H03F4, \H03F4, 1, -60>>,
     <<\H03F7, \H03F7, 1, 1>>, <<\H03F9, \H03F9, 1, -7>>,
     <<\H03FA, \H03FA, 1, 1>>, <<\H03FD, \H03FF, 1, -130>>,
     <<\H0400, \H040F, 1, 80>>, <<\H0410, \H042F, 1, 32>>,
     <<\H0460, \H0480, 2, 1>>, <<\H048A, \H04BE, 2, 1>>,
     <<\H04C0, \H04C0, 1, 15>>, <<\H04C1, \H04CD, 2, 1>>,
     <<\H04D0, \H052E, 2, 1>>, <<\H0531, \H0556, 1, 48>>,
     <<\H10A0, \H10C5, 1, 7264>>, <<\H10C7, \H10C7, 1, 7264>>,
     <<\H10CD, \H10CD, 1, 7264>>, <<\H13A0, \H13EF, 1, 38864>>,
     <<\H13F0, \H13F5, 1, 8>>, <<\H1C89, \H1C89, 1, 1>>,
     <<\H1C90, \H1CBA, 1, -3008>>, <<\H1CBD, \H1CBF, 1, -3008>>,
     <<\H1E00, \H1E94, 2, 1>>, <<\H1E9E, \H1E9E, 1, -7615>>,
     <<\H1EA0, \H1EFE, 2, 1>>, <<\H1F08, \H1F0F, 1, -8>>,
     <<\H1F18, \H1F1D, 1, -8>>, <<\H1F28, \H1F2F, 1, -8>>,
     <<\H1F38, \H1F3F, 1, -8>>, <<\H1F48, \H1F4D, 1, -8>>,
     <<\H1F59, \H1F5F, 2, -8>>, <<\H1F68, \H1F6F, 1, -8>>,
     <<\H1F88, \H1F8F, 1, -8>>, <<\H1F98, \H1F9F, 1, -8>>,
     <<\H1FA8, \H1FAF, 1, -8>>, <<\H1FB8, \H1FB9, 1, -8>>,
     <<\H1FBA, \H1FBB, 1, -74>>, <<\H1FBC, \H1FBC, 1, -9>>,
     <<\H1FC8, \H1FCB, 1, -86>>, <<\H1FCC, \H1FCC, 1, -9>>,
     <<\H1FD8, \H1FD9, 1, -8>>, <<\H1FDA, \H1FDB, 1, -100>>,
     <<\H1FE8, \H1FE9, 1, -8>>, <<\H1FEA, \H1FEB, 1, -112>>,
     <<\H1FEC, \H1FEC, 1, -7>>, <<\H1FF8, \H1FF9, 1, -128>>,
     <<\H1FFA, \H1FFB, 1, -126>>, <<\H1FFC, \H1FFC, 1, -9>>,
     <<\H2126, \H2126, 1, -7517>>, <<\H212A, \H212A, 1, -8383>>,
     <<\H212B, \H212B, 1, -8262>>, <<\H2132, \H2132, 1, 28>>,
     <<\H2160, \H216F, 1, 16>>, <<\H2183, \H2183, 1, 1>>,
     <<\H24B6, \H24CF, 1, 26>>, <<\H2C00, \H2C2F, 1, 48>>,
     <<\H2C60, \H2C60, 1, 1>>, <<\H2C62, \H2C62, 1, -10743>>,
     <<\H2C63, \H2C63, 1, -3814>>, <<\H2C64, \H2C64, 1, -10727>>,
     <<\H2C67, \H2C6B, 2, 1>>, <<\H2C6D, \H2C6D, 1, -10780>>,
     <<\H2C6E, \H2C6E, 1, -10749>>, <<\H2C6F, \H2C6F, 1, -10783>>,
     <<\H2C70, \H2C70, 1, -10782>>, <<\H2C72, \H2C72, 1, 1>>,
     <<\H2C75, \H2C75, 1, 1>>, <<\H2C7E, \H2C7F, 1, -10815>>,
     <<\H2C80, \H2CE2, 2, 1>>, <<\H2CEB, \H2CED, 2, 1>>,
     <<\H2CF2, \H2CF2, 1, 1>>, <<\HA640, \HA66C, 2, 1>>,
     <<\HA680, \HA69A, 2, 1>>, <<\HA722, \HA72E, 2, 1>>,
     <<\HA732, \HA76E, 2, 1>>, <<\HA779, \HA77B, 2, 1>>,
     <<\HA77D, \HA77D, 1, -35332>>, <<\HA77E, \HA786, 2, 1>>,
     <<\HA78B, \HA78B, 1, 1>>, <<\HA78D, \HA78D, 1, -42280>>,
     <<\HA790, \HA792, 2, 1>>, <<\HA796, \HA7A8, 2, 1>>,
     <<\HA7AA, \HA7AA, 1, -42308>>, <<\HA7AB, \HA7AB, 1, -42319>>,
     <<\HA7AC, \HA7AC, 1, -42315>>, <<\HA7AD, \HA7AD, 1, -42305>>,
     <<\HA7AE, \HA7AE, 1, -42308>>, <<\HA7B0, \HA7B0, 1, -42258>>,
     <<\HA7B1, \HA7B1, 1, -42282>>, <<\HA7B2, \HA7B2, 1, -42261>>,
     <<\HA7B3, \HA7B3, 1, 928>>, <<\HA7B4, \HA7C2, 2, 1>>,
     <<\HA7C4, \HA7C4, 1, -48>>, <<\HA7C5, \HA7C5, 1, -42307>>,
     <<\HA7C6, \HA7C6, 1, -35384>>, <<\HA7C7, \HA7C9, 2, 1>>,
     <<\HA7CB, \HA7CB, 1, -42343>>, <<\HA7CC, \HA7DA, 2, 1>>,
     <<\HA7DC, \HA7DC, 1, -42561>>, <<\HA7F5, \HA7F5, 1, 1>>,
     <<\HFF21, \HFF3A, 1, 32>>, <<\H10400, \H10427, 1, 40>>,
     <<\H104B0, \H104D3, 1, 40>>, <<\H10570, \H1057A, 1, 39>>,
     <<\H1057C, \H1058A, 1, 39>>, <<\H1058C, \H10592, 1, 39>>,
     <<\H10594, \H10595, 1, 39>>, <<\H10C80, \H10CB2, 1, 64>>,
     <<\H10D50, \H10D65, 1, 32>>, <<\H118A0, \H118BF, 1, 32>>,
     <<\H16E40, \H16E5F, 1, 32>>, <<\H16EA0, \H16EB8, 1, 27>>,
     <<\H1E900, \H1E921, 1, 34>>}

\* The code point whose lower case is more than one code point.
LowerCaseSpecial ==
    {<<\H0130, <<\H0069, \H0307>>>>}

\* The characters toLowerCase changes, each with the code units it becomes
\* (the capital sigma as it becomes outside the final position).
LowerCaseMap ==
    LET pairs == UNION {CaseRun(r[1], r[2], r[3], r[4]) : r \in LowerCaseRuns}
                    \cup {<<Character(e[1]), [j \in 1..Len(e[2]) |-> CodeUnit(e[2][j])]>> :
                            e \in LowerCaseSpecial}
    IN  [ch \in {p[1] : p \in pairs} |-> (CHOOSE p \in pairs : p[1] = ch)[2]]

\* The characters with the property Case_Ignorable, as ranges of code
\* points: marks, format controls, modifier letters and symbols, and the
\* punctuation ' . : ^ ` and its kin.
CaseIgnorableRanges ==
    {<<\H0027, \H0027>>, <<\H002E, \H002E>>, <<\H003A, \H003A>>, <<\H005E, \H005E>>,
     <<\H0060, \H0060>>, <<\H00A8, \H00A8>>, <<\H00AD, \H00AD>>, <<\H00AF, \H00AF>>,
     <<\H00B4, \H00B4>>, <<\H00B7, \H00B8>>, <<\H02B0, \H036F>>, <<\H0374, \H0375>>,
     <<\H037A, \H037A>>, <<\H0384, \H0385>>, <<\H0387, \H0387>>, <<\H0483, \H0489>>,
     <<\H0559, \H0559>>, <<\H055F, \H055F>>, <<\H0591, \H05BD>>, <<\H05BF, \H05BF>>,
     <<\H05C1, \H05C2>>, <<\H05C4, \H05C5>>, <<\H05C7, \H05C7>>, <<\H05F4, \H05F4>>,
     <<\H0600, \H0605>>, <<\H0610, \H061A>>, <<\H061C, \H061C>>, <<\H0640, \H0640>>,
     <<\H064B, \H065F>>, <<\H0670, \H0670>>, <<\H06D6, \H06DD>>, <<\H06DF, \H06E8>>,
     <<\H06EA, \H06ED>>, <<\H070F, \H070F>>, <<\H0711, \H0711>>, <<\H0730, \H074A>>,
     <<\H07A6, \H07B0>>, <<\H07EB, \H07F5>>, <<\H07FA, \H07FA>>, <<\H07FD, \H07FD>>,
     <<\H0816, \H082D>>, <<\H0859, \H085B>>, <<\H0888, \H0888>>, <<\H0890, \H0891>>,
     <<\H0897, \H089F>>, <<\H08C9, \H0902>>, <<\H093A, \H093A>>, <<\H093C, \H093C>>,
     <<\H0941, \H0948>>, <<\H094D, \H094D>>, <<\H0951, \H0957>>, <<\H0962, \H0963>>,
     <<\H0971, \H0971>>, <<\H0981, \H0981>>, <<\H09BC, \H09BC>>, <<\H09C1, \H09C4>>,
     <<\H09CD, \H09CD>>, <<\H09E2, \H09E3>>, <<\H09FE, \H09FE>>, <<\H0A01, \H0A02>>,
     <<\H0A3C, \H0A3C>>, <<\H0A41, \H0A42>>, <<\H0A47, \H0A48>>, <<\H0A4B, \H0A4D>>,
     <<\H0A51, \H0A51>>, <<\H0A70, \H0A71>>, <<\H0A75, \H0A75>>, <<\H0A81, \H0A82>>,
     <<\H0ABC, \H0ABC>>, <<\H0AC1, \H0AC5>>, <<\H0AC7, \H0AC8>>, <<\H0ACD, \H0ACD>>,
     <<\H0AE2, \H0AE3>>, <<\H0AFA, \H0AFF>>, <<\H0B01, \H0B01>>, <<\H0B3C, \H0B3C>>,
     <<\H0B3F, \H0B3F>>, <<\H0B41, \H0B44>>, <<\H0B4D, \H0B4D>>, <<\H0B55, \H0B56>>,
     <<\H0B62, \H0B63>>, <<\H0B82, \H0B82>>, <<\H0BC0, \H0BC0>>, <<\H0BCD, \H0BCD>>,
     <<\H0C00, \H0C00>>, <<\H0C04, \H0C04>>, <<\H0C3C, \H0C3C>>, <<\H0C3E, \H0C40>>,
     <<\H0C46, \H0C48>>, <<\H0C4A, \H0C4D>>, <<\H0C55, \H0C56>>, <<\H0C62, \H0C63>>,
     <<\H0C81, \H0C81>>, <<\H0CBC, \H0CBC>>, <<\H0CBF, \H0CBF>>, <<\H0CC6, \H0CC6>>,
     <<\H0CCC, \H0CCD>>, <<\H0CE2, \H0CE3>>, <<\H0D00, \H0D01>>, <<\H0D3B, \H0D3C>>,
     <<\H0D41, \H0D44>>, <<\H0D4D, \H0D4D>>, <<\H0D62, \H0D63>>, <<\H0D81, \H0D81>>,
     <<\H0DCA, \H0DCA>>, <<\H0DD2, \H0DD4>>, <<\H0DD6, \H0DD6>>, <<\H0E31, \H0E31>>,
     <<\H0E34, \H0E3A>>, <<\H0E46, \H0E4E>>, <<\H0EB1, \H0EB1>>, <<\H0EB4, \H0EBC>>,
     <<\H0EC6, \H0EC6>>, <<\H0EC8, \H0ECE>>, <<\H0F18, \H0F19>>, <<\H0F35, \H0F35>>,
     <<\H0F37, \H0F37>>, <<\H0F39, \H0F39>>, <<\H0F71, \H0F7E>>, <<\H0F80, \H0F84>>,
     <<\H0F86, \H0F87>>, <<\H0F8D, \H0F97>>, <<\H0F99, \H0FBC>>, <<\H0FC6, \H0FC6>>,
     <<\H102D, \H1030>>, <<\H1032, \H1037>>, <<\H1039, \H103A>>, <<\H103D, \H103E>>,
     <<\H1058, \H1059>>, <<\H105E, \H1060>>, <<\H1071, \H1074>>, <<\H1082, \H1082>>,
     <<\H1085, \H1086>>, <<\H108D, \H108D>>, <<\H109D, \H109D>>, <<\H10FC, \H10FC>>,
     <<\H135D, \H135F>>, <<\H1712, \H1714>>, <<\H1732, \H1733>>, <<\H1752, \H1753>>,
     <<\H1772, \H1773>>, <<\H17B4, \H17B5>>, <<\H17B7, \H17BD>>, <<\H17C6, \H17C6>>,
     <<\H17C9, \H17D3>>, <<\H17D7, \H17D7>>, <<\H17DD, \H17DD>>, <<\H180B, \H180F>>,
     <<\H1843, \H1843>>, <<\H1885, \H1886>>, <<\H18A9, \H18A9>>, <<\H1920, \H1922>>,
     <<\H1927, \H1928>>, <<\H1932, \H1932>>, <<\H1939, \H193B>>, <<\H1A17, \H1A18>>,
     <<\H1A1B, \H1A1B>>, <<\H1A56, \H1A56>>, <<\H1A58, \H1A5E>>, <<\H1A60, \H1A60>>,
     <<\H1A62, \H1A62>>, <<\H1A65, \H1A6C>>, <<\H1A73, \H1A7C>>, <<\H1A7F, \H1A7F>>,
     <<\H1AA7, \H1AA7>>, <<\H1AB0, \H1ADD>>, <<\H1AE0, \H1AEB>>, <<\H1B00, \H1B03>>,
     <<\H1B34, \H1B34>>, <<\H1B36, \H1B3A>>, <<\H1B3C, \H1B3C>>, <<\H1B42, \H1B42>>,
     <<\H1B6B, \H1B73>>, <<\H1B80, \H1B81>>, <<\H1BA2, \H1BA5>>, <<\H1BA8, \H1BA9>>,
     <<\H1BAB, \H1BAD>>, <<\H1BE6, \H1BE6>>, <<\H1BE8, \H1BE9>>, <<\H1BED, \H1BED>>,
     <<\H1BEF, \H1BF1>>, <<\H1C2C, \H1C33>>, <<\H1C36, \H1C37>>, <<\H1C78, \H1C7D>>,
     <<\H1CD0, \H1CD2>>, <<\H1CD4, \H1CE0>>, <<\H1CE2, \H1CE8>>, <<\H1CED, \H1CED>>,
     <<\H1CF4, \H1CF4>>, <<\H1CF8, \H1CF9>>, <<\H1D2C, \H1D6A>>, <<\H1D78, \H1D78>>,
     <<\H1D9B, \H1DFF>>, <<\H1FBD, \H1FBD>>, <<\H1FBF, \H1FC1>>, <<\H1FCD, \H1FCF>>,
     <<\H1FDD, \H1FDF>>, <<\H1FED, \H1FEF>>, <<\H1FFD, \H1FFE>>, <<\H200B, \H200F>>,
     <<\H2018, \H2019>>, <<\H2024, \H2024>>, <<\H2027, \H2027>>, <<\H202A, \H202E>>,
     <<\H2060, \H2064>>, <<\H2066, \H206F>>, <<\H2071, \H2071>>, <<\H207F, \H207F>>,
     <<\H2090, \H209C>>, <<\H20D0, \H20F0>>, <<\H2C7C, \H2C7D>>, <<\H2CEF, \H2CF1>>,
     <<\H2D6F, \H2D6F>>, <<\H2D7F, \H2D7F>>, <<\H2DE0, \H2DFF>>, <<\H2E2F, \H2E2F>>,
     <<\H3005, \H3005>>, <<\H302A, \H302D>>, <<\H3031, \H3035>>, <<\H303B, \H303B>>,
     <<\H3099, \H309E>>, <<\H30FC, \H30FE>>, <<\HA015, \HA015>>, <<\HA4F8, \HA4FD>>,
     <<\HA60C, \HA60C>>, <<\HA66F, \HA672>>, <<\HA674, \HA67D>>, <<\HA67F, \HA67F>>,
     <<\HA69C, \HA69F>>, <<\HA6F0, \HA6F1>>, <<\HA700, \HA721>>, <<\HA770, \HA770>>,
     <<\HA788, \HA78A>>, <<\HA7F1, \HA7F4>>, <<\HA7F8, \HA7F9>>, <<\HA802, \HA802>>,
     <<\HA806, \HA806>>, <<\HA80B, \HA80B>>, <<\HA825, \HA826>>, <<\HA82C, \HA82C>>,
     <<\HA8C4, \HA8C5>>, <<\HA8E0, \HA8F1>>, <<\HA8FF, \HA8FF>>, <<\HA926, \HA92D>>,
     <<\HA947, \HA951>>, <<\HA980, \HA982>>, <<\HA9B3, \HA9B3>>, <<\HA9B6, \HA9B9>>,
     <<\HA9BC, \HA9BD>>, <<\HA9CF, \HA9CF>>, <<\HA9E5, \HA9E6>>, <<\HAA29, \HAA2E>>,
     <<\HAA31, \HAA32>>, <<\HAA35, \HAA36>>, <<\HAA43, \HAA43>>, <<\HAA4C, \HAA4C>>,
     <<\HAA70, \HAA70>>, <<\HAA7C, \HAA7C>>, <<\HAAB0, \HAAB0>>, <<\HAAB2, \HAAB4>>,
     <<\HAAB7, \HAAB8>>, <<\HAABE, \HAABF>>, <<\HAAC1, \HAAC1>>, <<\HAADD, \HAADD>>,
     <<\HAAEC, \HAAED>>, <<\HAAF3, \HAAF4>>, <<\HAAF6, \HAAF6>>, <<\HAB5B, \HAB5F>>,
     <<\HAB69, \HAB6B>>, <<\HABE5, \HABE5>>, <<\HABE8, \HABE8>>, <<\HABED, \HABED>>,
     <<\HFB1E, \HFB1E>>, <<\HFBB2, \HFBC2>>, <<\HFE00, \HFE0F>>, <<\HFE13, \HFE13>>,
     <<\HFE20, \HFE2F>>, <<\HFE52, \HFE52>>, <<\HFE55, \HFE55>>, <<\HFEFF, \HFEFF>>,
     <<\HFF07, \HFF07>>, <<\HFF0E, \HFF0E>>, <<\HFF1A, \HFF1A>>, <<\HFF3E, \HFF3E>>,
     <<\HFF40, \HFF40>>, <<\HFF70, \HFF70>>, <<\HFF9E, \HFF9F>>, <<\HFFE3, \HFFE3>>,
     <<\HFFF9, \HFFFB>>, <<\H101FD, \H101FD>>, <<\H102E0, \H102E0>>, <<\H10376, \H1037A>>,
     <<\H10780, \H10785>>, <<\H10787, \H107B0>>, <<\H107B2, \H107BA>>, <<\H10A01, \H10A03>>,
     <<\H10A05, \H10A06>>, <<\H10A0C, \H10A0F>>, <<\H10A38, \H10A3A>>, <<\H10A3F, \H10A3F>>,
     <<\H10AE5, \H10AE6>>, <<\H10D24, \H10D27>>, <<\H10D4E, \H10D4E>>, <<\H10D69, \H10D6D>>,
     <<\H10D6F, \H10D6F>>, <<\H10EAB, \H10EAC>>, <<\H10EC5, \H10EC5>>, <<\H10EFA, \H10EFF>>,
     <<\H10F46, \H10F50>>, <<\H10F82, \H10F85>>, <<\H11001, \H11001>>, <<\H11038, \H11046>>,
     <<\H11070, \H11070>>, <<\H11073, \H11074>>, <<\H1107F, \H11081>>, <<\H110B3, \H110B6>>,
     <<\H110B9, \H110BA>>, <<\H110BD, \H110BD>>, <<\H110C2, \H110C2>>, <<\H110CD, \H110CD>>,
     <<\H11100, \H11102>>, <<\H11127, \H1112B>>, <<\H1112D, \H11134>>, <<\H11173, \H11173>>,
     <<\H11180, \H11181>>, <<\H111B6, \H111BE>>, <<\H111C9, \H111CC>>, <<\H111CF, \H111CF>>,
     <<\H1122F, \H11231>>, <<\H11234, \H11234>>, <<\H11236, \H11237>>, <<\H1123E, \H1123E>>,
     <<\H11241, \H11241>>, <<\H112DF, \H112DF>>, <<\H112E3, \H112EA>>, <<\H11300, \H11301>>,
     <<\H1133B, \H1133C>>, <<\H11340, \H11340>>, <<\H11366, \H1136C>>, <<\H11370, \H11374>>,
     <<\H113BB, \H113C0>>, <<\H113CE, \H113CE>>, <<\H113D0, \H113D0>>, <<\H113D2, \H113D2>>,
     <<\H113E1, \H113E2>>, <<\H11438, \H1143F>>, <<\H11442, \H11444>>, <<\H11446, \H11446>>,
     <<\H1145E, \H1145E>>, <<\H114B3, \H114B8>>, <<\H114BA, \H114BA>>, <<\H114BF, \H114C0>>,
     <<\H114C2, \H114C3>>, <<\H115B2, \H115B5>>, <<\H115BC, \H115BD>>, <<\H115BF, \H115C0>>,
     <<\H115DC, \H115DD>>, <<\H11633, \H1163A>>, <<\H1163D, \H1163D>>, <<\H1163F, \H11640>>,
     <<\H116AB, \H116AB>>, <<\H116AD, \H116AD>>, <<\H116B0, \H116B5>>, <<\H116B7, \H116B7>>,
     <<\H1171D, \H1171D>>, <<\H1171F, \H1171F>>, <<\H11722, \H11725>>, <<\H11727, \H1172B>>,
     <<\H1182F, \H11837>>, <<\H11839, \H1183A>>, <<\H1193B, \H1193C>>, <<\H1193E, \H1193E>>,
     <<\H11943, \H11943>>, <<\H119D4, \H119D7>>, <<\H119DA, \H119DB>>, <<\H119E0, \H119E0>>,
     <<\H11A01, \H11A0A>>, <<\H11A33, \H11A38>>, <<\H11A3B, \H11A3E>>, <<\H11A47, \H11A47>>,
     <<\H11A51, \H11A56>>, <<\H11A59, \H11A5B>>, <<\H11A8A, \H11A96>>, <<\H11A98, \H11A99>>,
     <<\H11B60, \H11B60>>, <<\H11B62, \H11B64>>, <<\H11B66, \H11B66>>, <<\H11C30, \H11C36>>,
     <<\H11C38, \H11C3D>>, <<\H11C3F, \H11C3F>>, <<\H11C92, \H11CA7>>, <<\H11CAA, \H11CB0>>,
     <<\H11CB2, \H11CB3>>, <<\H11CB5, \H11CB6>>, <<\H11D31, \H11D36>>, <<\H11D3A, \H11D3A>>,
     <<\H11D3C, \H11D3D>>, <<\H11D3F, \H11D45>>, <<\H11D47, \H11D47>>, <<\H11D90, \H11D91>>,
     <<\H11D95, \H11D95>>, <<\H11D97, \H11D97>>, <<\H11DD9, \H11DD9>>, <<\H11EF3, \H11EF4>>,
     <<\H11F00, \H11F01>>, <<\H11F36, \H11F3A>>, <<\H11F40, \H11F40>>, <<\H11F42, \H11F42>>,
     <<\H11F5A, \H11F5A>>, <<\H13430, \H13440>>, <<\H13447, \H13455>>, <<\H1611E, \H16129>>,
     <<\H1612D, \H1612F>>, <<\H16AF0, \H16AF4>>, <<\H16B30, \H16B36>>, <<\H16B40, \H16B43>>,
     <<\H16D40, \H16D42>>, <<\H16D6B, \H16D6C>>, <<\H16F4F, \H16F4F>>, <<\H16F8F, \H16F9F>>,
     <<\H16FE0, \H16FE1>>, <<\H16FE3, \H16FE4>>, <<\H16FF2, \H16FF3>>, <<\H1AFF0, \H1AFF3>>,
     <<\H1AFF5, \H1AFFB>>, <<\H1AFFD, \H1AFFE>>, <<\H1BC9D, \H1BC9E>>, <<\H1BCA0, \H1BCA3>>,
     <<\H1CF00, \H1CF2D>>, <<\H1CF30, \H1CF46>>, <<\H1D167, \H1D169>>, <<\H1D173, \H1D182>>,
     <<\H1D185, \H1D18B>>, <<\H1D1AA, \H1D1AD>>, <<\H1D242, \H1D244>>, <<\H1DA00, \H1DA36>>,
     <<\H1DA3B, \H1DA6C>>, <<\H1DA75, \H1DA75>>, <<\H1DA84, \H1DA84>>, <<\H1DA9B, \H1DA9F>>,
     <<\H1DAA1, \H1DAAF>>, <<\H1E000, \H1E006>>, <<\H1E008, \H1E018>>, <<\H1E01B, \H1E021>>,
     <<\H1E023, \H1E024>>, <<\H1E026, \H1E02A>>, <<\H1E030, \H1E06D>>, <<\H1E08F, \H1E08F>>,
     <<\H1E130, \H1E13D>>, <<\H1E2AE, \H1E2AE>>, <<\H1E2EC, \H1E2EF>>, <<\H1E4EB, \H1E4EF>>,
     <<\H1E5EE, \H1E5EF>>, <<\H1E6E3, \H1E6E3>>, <<\H1E6E6, \H1E6E6>>, <<\H1E6EE, \H1E6EF>>,
     <<\H1E6F5, \H1E6F5>>, <<\H1E6FF, \H1E6FF>>, <<\H1E8D0, \H1E8D6>>, <<\H1E944, \H1E94B>>,
     <<\H1F3FB, \H1F3FF>>, <<\HE0001, \HE0001>>, <<\HE0020, \HE007F>>, <<\HE0100, \HE01EF>>}

CaseIgnorable == UNION {{Character(n) : n \in r[1]..r[2]} : r \in CaseIgnorableRanges}

\* The characters with the property Cased, as ranges of code points: the
\* lower-case, upper-case and title-case letters.  Some of them, such as
\* the modifier letters, are Case_Ignorable as well.
CasedRanges ==
    {<<\H0041, \H005A>>, <<\H0061, \H007A>>, <<\H00AA, \H00AA>>, <<\H00B5, \H00B5>>,
     <<\H00BA, \H00BA>>, <<\H00C0, \H00D6>>, <<\H00D8, \H00F6>>, <<\H00F8, \H01BA>>,
     <<\H01BC, \H01BF>>, <<\H01C4, \H0293>>, <<\H0296, \H02B8>>, <<\H02C0, \H02C1>>,
     <<\H02E0, \H02E4>>, <<\H0345, \H0345>>, <<\H0370, \H0373>>, <<\H0376, \H0377>>,
     <<\H037A, \H037D>>, <<\H037F, \H037F>>, <<\H0386, \H0386>>, <<\H0388, \H038A>>,
     <<\H038C, \H038C>>, <<\H038E, \H03A1>>, <<\H03A3, \H03F5>>, <<\H03F7, \H0481>>,
     <<\H048A, \H052F>>, <<\H0531, \H0556>>, <<\H0560, \H0588>>, <<\H10A0, \H10C5>>,
     <<\H10C7, \H10C7>>, <<\H10CD, \H10CD>>, <<\H10D0, \H10FA>>, <<\H10FC, \H10FF>>,
     <<\H13A0, \H13F5>>, <<\H13F8, \H13FD>>, <<\H1C80, \H1C8A>>, <<\H1C90, \H1CBA>>,
     <<\H1CBD, \H1CBF>>, <<\H1D00, \H1DBF>>, <<\H1E00, \H1F15>>, <<\H1F18, \H1F1D>>,
     <<\H1F20, \H1F45>>, <<\H1F48, \H1F4D>>, <<\H1F50, \H1F57>>, <<\H1F59, \H1F59>>,
     <<\H1F5B, \H1F5B>>, <<\H1F5D, \H1F5D>>, <<\H1F5F, \H1F7D>>, <<\H1F80, \H1FB4>>,
     <<\H1FB6, \H1FBC>>, <<\H1FBE, \H1FBE>>, <<\H1FC2, \H1FC4>>, <<\H1FC6, \H1FCC>>,
     <<\H1FD0, \H1FD3>>, <<\H1FD6, \H1FDB>>, <<\H1FE0, \H1FEC>>, <<\H1FF2, \H1FF4>>,
     <<\H1FF6, \H1FFC>>, <<\H2071, \H2071>>, <<\H207F, \H207F>>, <<\H2090, \H209C>>,
     <<\H2102, \H2102>>, <<\H2107, \H2107>>, <<\H210A, \H2113>>, <<\H2115, \H2115>>,
     <<\H2119, \H211D>>, <<\H2124, \H2124>>, <<\H2126, \H2126>>, <<\H2128, \H2128>>,
     <<\H212A, \H212D>>, <<\H212F, \H2134>>, <<\H2139, \H2139>>, <<\H213C, \H213F>>,
     <<\H2145, \H2149>>, <<\H214E, \H214E>>, <<\H2160, \H217F>>, <<\H2183, \H2184>>,
     <<\H24B6, \H24E9>>, <<\H2C00, \H2CE4>>, <<\H2CEB, \H2CEE>>, <<\H2CF2, \H2CF3>>,
     <<\H2D00, \H2D25>>, <<\H2D27, \H2D27>>, <<\H2D2D, \H2D2D>>, <<\HA640, \HA66D>>,
     <<\HA680, \HA69D>>, <<\HA722, \HA787>>, <<\HA78B, \HA78E>>, <<\HA790, \HA7DC>>,
     <<\HA7F1, \HA7F6>>, <<\HA7F8, \HA7FA>>, <<\HAB30, \HAB5A>>, <<\HAB5C, \HAB69>>,
     <<\HAB70, \HABBF>>, <<\HFB00, \HFB06>>, <<\HFB13, \HFB17>>, <<\HFF21, \HFF3A>>,
     <<\HFF41, \HFF5A>>, <<\H10400, \H1044F>>, <<\H104B0, \H104D3>>, <<\H104D8, \H104FB>>,
     <<\H10570, \H1057A>>, <<\H1057C, \H1058A>>, <<\H1058C, \H10592>>, <<\H10594, \H10595>>,
     <<\H10597, \H105A1>>, <<\H105A3, \H105B1>>, <<\H105B3, \H105B9>>, <<\H105BB, \H105BC>>,
     <<\H10780, \H10780>>, <<\H10783, \H10785>>, <<\H10787, \H107B0>>, <<\H107B2, \H107BA>>,
     <<\H10C80, \H10CB2>>, <<\H10CC0, \H10CF2>>, <<\H10D50, \H10D65>>, <<\H10D70, \H10D85>>,
     <<\H118A0, \H118DF>>, <<\H16E40, \H16E7F>>, <<\H16EA0, \H16EB8>>, <<\H16EBB, \H16ED3>>,
     <<\H1D400, \H1D454>>, <<\H1D456, \H1D49C>>, <<\H1D49E, \H1D49F>>, <<\H1D4A2, \H1D4A2>>,
     <<\H1D4A5, \H1D4A6>>, <<\H1D4A9, \H1D4AC>>, <<\H1D4AE, \H1D4B9>>, <<\H1D4BB, \H1D4BB>>,
     <<\H1D4BD, \H1D4C3>>, <<\H1D4C5, \H1D505>>, <<\H1D507, \H1D50A>>, <<\H1D50D, \H1D514>>,
     <<\H1D516, \H1D51C>>, <<\H1D51E, \H1D539>>, <<\H1D53B, \H1D53E>>, <<\H1D540, \H1D544>>,
     <<\H1D546, \H1D546>>, <<\H1D54A, \H1D550>>, <<\H1D552, \H1D6A5>>, <<\H1D6A8, \H1D6C0>>,
     <<\H1D6C2, \H1D6DA>>, <<\H1D6DC, \H1D6FA>>, <<\H1D6FC, \H1D714>>, <<\H1D716, \H1D734>>,
     <<\H1D736, \H1D74E>>, <<\H1D750, \H1D76E>>, <<\H1D770, \H1D788>>, <<\H1D78A, \H1D7A8>>,
     <<\H1D7AA, \H1D7C2>>, <<\H1D7C4, \H1D7CB>>, <<\H1DF00, \H1DF09>>, <<\H1DF0B, \H1DF1E>>,
     <<\H1DF25, \H1DF2A>>, <<\H1E030, \H1E06D>>, <<\H1E900, \H1E943>>, <<\H1F130, \H1F149>>,
     <<\H1F150, \H1F169>>, <<\H1F170, \H1F189>>}

Cased == UNION {{Character(n) : n \in r[1]..r[2]} : r \in CasedRanges}

\* String.prototype.toUpperCase of one code unit.
UpperCaseOf(c) ==
    IF <<c>> \in DOMAIN UpperCaseMap THEN UpperCaseMap[<<c>>] ELSE <<c>>

toUpperCase(str) ==
    LetValue(Characters(str), LAMBDA chars :
        LetValue([i \in 1..Len(chars) |->
                     IF chars[i] \in DOMAIN UpperCaseMap
                     THEN UpperCaseMap[chars[i]]
                     ELSE chars[i]],
                 LAMBDA mapped : ConcatRange(mapped, 1, Len(chars))))

StateChangingMethods ==
    {<<"P", "O", "S", "T">>, <<"P", "U", "T">>, <<"P", "A", "T", "C", "H">>,
     <<"D", "E", "L", "E", "T", "E">>}

\* Mutant: the method is compared as written, without toUpperCase().
IsStateChanging_CaseSensitive(method) ==
    method # <<>> /\ method \in StateChangingMethods

\* options.method && [...].includes(options.method.toUpperCase())
IsStateChanging(method) ==
    method # <<>> /\ toUpperCase(method) \in StateChangingMethods

\* '' on the server; in the browser the stored 'session-id', or a new
\* crypto.randomUUID() stored under that key when none is stored.
getSessionId(win, stored, uuid) ==
    IF ~win
    THEN [ret |-> "", localStorage |-> stored]
    ELSE IF stored = NULL \/ stored = ""
    THEN [ret |-> uuid, localStorage |-> uuid]
    ELSE [ret |-> stored, localStorage |-> stored]

\* The body step: a string body that parses as JSON is replaced by the
\* JSON text of its sanitized value; anything else is forwarded as is.
sanitizeBody(config, body) ==
    IF body.kind \notin {"jsontext", "text"}
    THEN body
    ELSE LET parsedBody == JSONParse(body) IN
         IF ~parsedBody.ok
         THEN body
         ELSE LET sanitizedBody == sanitizeFormData(config, parsedBody.value) IN
              IF sanitizedBody.kind = "throw"
              THEN body
              ELSE JSONStringify(sanitizedBody)

\* The request handed to fetch(), with the token map and the local storage
\* the call leaves behind; issued is <<sessionId>> when a token was stored.
secureFetch(config, options, tk, win, stored, uuid, token, t) ==
    LetValue(IsStateChanging(options.method), LAMBDA stateChanging :
    LET securityHeaders == applySecurityHeaders(config)
        enhanced == Spread(Spread([k \in {"Content-Type"} |-> <<"application/json">>],
                                  securityHeaders),
                           options.headers)
        sid == IF stateChanging
               THEN getSessionId(win, stored, uuid)
               ELSE [ret |-> "", localStorage |-> stored]
        attach == stateChanging /\ sid.ret # "" /\ config.enableCSRF
        gen == IF attach
               THEN generateCSRFToken(config, tk, sid.ret, token, t)
               ELSE [ret |-> "", tokens |-> tk]
        headers == IF attach
                   THEN Spread(enhanced, [k \in {"X-CSRF-Token"} |-> <<gen.ret>>])
                   ELSE enhanced
    IN  [request |-> [method |-> options.method,
                      headers |-> headers,
                      body |-> sanitizeBody(config, options.body)],
         tokens |-> gen.tokens,
         localStorage |-> sid.localStorage,
         issued |-> IF attach THEN <<sid.ret>> ELSE <<>>])

\* String.prototype.toLowerCase of one code unit.
LowerCaseOf(c) ==
    IF <<c>> \in DOMAIN LowerCaseMap THEN LowerCaseMap[<<c>>] ELSE <<c>>

\* The capital sigma chars[i] is in final position: going back over the
\* case-ignorable characters before it, the first other character is a
\* cased letter, and going on over the case-ignorable characters after it,
\* the first other character, if any, is not.
FinalSigma(chars, i) ==
    /\ \E j \in 1..(i - 1) :
          /\ chars[j] \notin CaseIgnorable
          /\ chars[j] \in Cased
          /\ \A k \in (j + 1)..(i - 1) : chars[k] \in CaseIgnorable
    /\ ~\E j \in (i + 1)..Len(chars) :
          /\ chars[j] \notin CaseIgnorable
          /\ chars[j] \in Cased
          /\ \A k \in (i + 1)..(j - 1) : chars[k] \in CaseIgnorable

\* Mutant: the name is compared as written.
toLowerCase_Identity(str) == str

toLowerCase(str) ==
    LetValue(Characters(str), LAMBDA chars :
        LetValue([i \in 1..Len(chars) |->
                     IF chars[i] = <<"U+03A3">>
                     THEN IF FinalSigma(chars, i)
                          THEN <<"U+03C2">>
                          ELSE <<"U+03C3">>
                     ELSE IF chars[i] \in DOMAIN LowerCaseMap
                     THEN LowerCaseMap[chars[i]]
                     ELSE chars[i]],
                 LAMBDA mapped : ConcatRange(mapped, 1, Len(chars))))

endsWith(str, suffix) ==
    /\ Len(suffix) <= Len(str)
    /\ SubSeq(str, Len(str) - Len(suffix) + 1, Len(str)) = suffix

allowedTypes ==
    {"image/jpeg", "image/png", "image/gif", "image/webp", "application/pdf",
     "text/plain", "application/msword",
     "application/vnd.openxmlformats-officedocument.wordprocessingml.document"}

maxSize == 10 * 1024 * 1024

dangerousExtensions ==
    <<<<".", "e", "x", "e">>, <<".", "b", "a", "t">>, <<".", "c", "m", "d">>,
      <<".", "s", "c", "r">>, <<".", "c", "o", "m">>, <<".", "p", "i", "f">>,
      <<".", "v", "b", "s">>, <<".", "j", "s">>, <<".", "j", "a", "r">>>>

\* dangerousExtensions.some(ext => name.toLowerCase().endsWith(ext))
hasExtension(name) ==
    \E i \in 1..Len(dangerousExtensions) :
        endsWith(toLowerCase(name), dangerousExtensions[i])

typeError(type) == "File type " \o type \o " is not allowed"

sizeError(limit) ==
    "File size exceeds maximum limit of "
        \o ToString(limit \div (1024 * 1024)) \o "MB"

\* Mutant: the first failed check ends the validation.
validateFileUpload_FailFast(file) ==
    LET errors ==
            IF file.type \notin allowedTypes
            THEN <<typeError(file.type)>>
            ELSE IF file.size > maxSize
            THEN <<sizeError(maxSize)>>
            ELSE IF hasExtension(file.name)
            THEN <<"File extension is not allowed for security reasons">>
            ELSE <<>>
    IN  [valid |-> Len(errors) = 0, errors |-> errors]

validateFileUpload(file) ==
    LET errors1 == IF file.type \notin allowedTypes
                   THEN <<typeError(file.type)>>
                   ELSE <<>>
        errors2 == IF file.size > maxSize
                   THEN Append(errors1, sizeError(maxSize))
                   ELSE errors1
        errors == IF hasExtension(file.name)
                  THEN Append(errors2,
                              "File extension is not allowed for security reasons")
                  ELSE errors2
    IN  [valid |-> Len(errors) = 0, errors |-> errors]

\* defaultSecurityConfig, on which defaultFileUploadSecurity is built.
maxFileSize == 10 * 1024 * 1024

allowedFileTypes ==
    {"image/jpeg", "image/png", "image/gif", "image/webp", "application/pdf",
     "text/plain", "application/msword",
     "application/vnd.openxmlformats-officedocument.wordprocessingml.document"}

\* The characters of the class [a-zA-Z0-9\-_\.].
FilenameChars ==
    {LowerCaseLetters[j] : j \in 1..Len(LowerCaseLetters)}
        \cup {UpperCaseLetters[j] : j \in 1..Len(UpperCaseLetters)}
        \cup {Digits[j] : j \in 1..Len(Digits)}
        \cup {"-", "_", "."}

\* .replace(/\.+/g, '.'): a dot that follows a dot is dropped.
collapseDots(str) ==
    LET paired == [i \in 1..Len(str) |->
                      <<str[i], IF i > 1 THEN str[i - 1] ELSE "">>]
        kept == SelectSeq(paired, LAMBDA p : ~(p[1] = "." /\ p[2] = "."))
    IN  [i \in 1..Len(kept) |-> kept[i][1]]

\* .replace(/^\.+|\.+$/g, ''): the leading and the trailing dots go.
trimDots(str) ==
    LET inner == {i \in 1..Len(str) : str[i] # "."}
    IN  IF inner = {}
        THEN <<>>
        ELSE SubSeq(str, CHOOSE i \in inner : \A j \in inner : i <= j,
                         CHOOSE i \in inner : \A j \in inner : i >= j)

sanitizeFilename(filename) ==
    LET replaced == [i \in 1..Len(filename) |->
                        IF filename[i] \in FilenameChars THEN filename[i] ELSE "_"]
        trimmed == trimDots(collapseDots(replaced))
    IN  SubSeq(trimmed, 1, IF Len(trimmed) < 255 THEN Len(trimmed) ELSE 255)

\* Magic numbers: PE 4D 5A, ELF 7F 45 4C 46, Java class CA FE BA BE,
\* Mach-O FE ED FA CE.
signatures ==
    <<<<77, 90>>, <<127, 69, 76, 70>>, <<202, 254, 186, 190>>,
      <<254, 237, 250, 206>>>>

matchesSignature(bytes, signature) ==
    /\ ~(Len(bytes) < Len(signature))
    /\ \A i \in 1..Len(signature) : bytes[i] = signature[i]

scanFileContent(content) ==
    IF \E i \in 1..Len(signatures) : matchesSignature(content, signatures[i])
    THEN <<"File contains executable code">>
    ELSE <<>>

\* validateFile of defaultFileUploadSecurity.  The content step declares its
\* own `errors` (const errors = this.scanFileContent(...)) and pushes the
\* findings onto that block-scoped array, scanned below; the function-level
\* `errors` that is returned is the one built by the three checks before it.
validateFile(file) ==
    LET errors1 == IF file.size > maxFileSize
                   THEN <<sizeError(maxFileSize)>>
                   ELSE <<>>
        errors2 == IF file.type \notin allowedFileTypes
                   THEN Append(errors1, typeError(file.type))
                   ELSE errors1
        sanitizedName == sanitizeFilename(file.name)
        errors == IF hasExtension(sanitizedName)
                  THEN Append(errors2, "File extension is not allowed")
                  ELSE errors2
        scanned == IF file.content # <<>>
                   THEN scanFileContent(file.content[1]) \o
                            scanFileContent(file.content[1])
                   ELSE <<>>
    IN  [valid |-> Len(errors) = 0,
         errors |-> errors,
         sanitizedName |-> IF Len(errors) = 0 THEN <<sanitizedName>> ELSE <<>>]

(***************************************************************************)
(* SessionSecurity (index.ts): the session registry.                       *)
(***************************************************************************)
maxSessionAge == 24 * 60 * 60 * 1000

maxIdleTime == 2 * 60 * 60 * 1000

\* 32 bytes of the secure random source in hex: the n-th draw.
generateSecureSessionId(n) == "sid-" \o ToString(n)

\* Mutant: the activity time of a new session is the load time of the module.
createSession_StaleActivity(ss, sessionId, userId, ipAddress, userAgent, t) ==
    [ret |-> sessionId,
     sessions |-> MapSet(ss, sessionId,
                         [userId |-> userId, created |-> t, lastActivity |-> 0,
                          ipAddress |-> ipAddress, userAgent |-> userAgent])]

createSession(ss, sessionId, userId, ipAddress, userAgent, t) ==
    [ret |-> sessionId,
     sessions |-> MapSet(ss, sessionId,
                         [userId |-> userId, created |-> t, lastActivity |-> t,
                          ipAddress |-> ipAddress, userAgent |-> userAgent])]

\* Mutant: the idle check comes before the age check.
validateSession_IdleFirst(ss, sessionId, ipAddress, userAgent, t) ==
    IF sessionId \notin DOMAIN ss
    THEN [ret |-> [valid |-> FALSE, reason |-> "Session not found"],
          sessions |-> ss]
    ELSE LET session == ss[sessionId] IN
         IF t - session.lastActivity > maxIdleTime
         THEN [ret |-> [valid |-> FALSE, reason |-> "Session idle timeout"],
               sessions |-> MapDelete(ss, sessionId)]
         ELSE IF t - session.created > maxSessionAge
         THEN [ret |-> [valid |-> FALSE, reason |-> "Session expired"],
               sessions |-> MapDelete(ss, sessionId)]
         ELSE IF session.ipAddress # ipAddress
         THEN [ret |-> [valid |-> FALSE, reason |-> "IP address mismatch"],
               sessions |-> MapDelete(ss, sessionId)]
         ELSE [ret |-> [valid |-> TRUE, userId |-> session.userId],
               sessions |-> [ss EXCEPT ![sessionId].lastActivity = t]]

\* Mutant: a successful validation leaves lastActivity as it was.
validateSession_NoRefresh(ss, sessionId, ipAddress, userAgent, t) ==
    IF sessionId \notin DOMAIN ss
    THEN [ret |-> [valid |-> FALSE, reason |-> "Session not found"],
          sessions |-> ss]
    ELSE LET session == ss[sessionId] IN
         IF t - session.created > maxSessionAge
         THEN [ret |-> [valid |-> FALSE, reason |-> "Session expired"],
               sessions |-> MapDelete(ss, sessionId)]
         ELSE IF t - session.lastActivity > maxIdleTime
         THEN [ret |-> [valid |-> FALSE, reason |-> "Session idle timeout"],
               sessions |-> MapDelete(ss, sessionId)]
         ELSE IF session.ipAddress # ipAddress
         THEN [ret |-> [valid |-> FALSE, reason |-> "IP address mismatch"],
               sessions |-> MapDelete(ss, sessionId)]
         ELSE [ret |-> [valid |-> TRUE, userId |-> session.userId],
               sessions |-> ss]

\* Mutant: an IP mismatch is reported but the session is kept.
validateSession_KeepOnMismatch(ss, sessionId, ipAddress, userAgent, t) ==
    IF sessionId \notin DOMAIN ss
    THEN [ret |-> [valid |-> FALSE, reason |-> "Session not found"],
          sessions |-> ss]
    ELSE LET session == ss[sessionId] IN
         IF t - session.created > maxSessionAge
         THEN [ret |-> [valid |-> FALSE, reason |-> "Session expired"],
               sessions |-> MapDelete(ss, sessionId)]
         ELSE IF t - session.lastActivity > maxIdleTime
         THEN [ret |-> [valid |-> FALSE, reason |-> "Session idle timeout"],
               sessions |-> MapDelete(ss, sessionId)]
         ELSE IF session.ipAddress # ipAddress
         THEN [ret |-> [valid |-> FALSE, reason |-> "IP address mismatch"],
               sessions |-> ss]
         ELSE [ret |-> [valid |-> TRUE, userId |-> session.userId],
               sessions |-> [ss EXCEPT ![sessionId].lastActivity = t]]

validateSession(ss, sessionId, ipAddress, userAgent, t) ==
    IF sessionId \notin DOMAIN ss
    THEN [ret |-> [valid |-> FALSE, reason |-> "Session not found"],
          sessions |-> ss]
    ELSE LET session == ss[sessionId] IN
         IF t - session.created > maxSessionAge
         THEN [ret |-> [valid |-> FALSE, reason |-> "Session expired"],
               sessions |-> MapDelete(ss, sessionId)]
         ELSE IF t - session.lastActivity > maxIdleTime
         THEN [ret |-> [valid |-> FALSE, reason |-> "Session idle timeout"],
               sessions |-> MapDelete(ss, sessionId)]
         ELSE IF session.ipAddress # ipAddress
         THEN [ret |-> [valid |-> FALSE, reason |-> "IP address mismatch"],
               sessions |-> MapDelete(ss, sessionId)]
         ELSE [ret |-> [valid |-> TRUE, userId |-> session.userId],
               sessions |-> [ss EXCEPT ![sessionId].lastActivity = t]]

destroySession(ss, sessionId) == MapDelete(ss, sessionId)

\* SessionSecurity.cleanup
cleanupSessions(ss, t) ==
    LET kept == {sessionId \in DOMAIN ss :
                    ~(t - ss[sessionId].created > maxSessionAge
                      \/ t - ss[sessionId].lastActivity > maxIdleTime)}
    IN  [sessionId \in kept |-> ss[sessionId]]

(***************************************************************************)
(* Observer of issued tokens.                                              *)
(***************************************************************************)
LedgerIssue(lg, token, sessionId, n) ==
    MapSet(lg, token, [sessionId |-> sessionId, n |-> n, validations |-> 0])

LedgerSuccess(lg, token) ==
    IF token \in DOMAIN lg
    THEN [lg EXCEPT ![token].validations = IF @ < 2 THEN @ + 1 ELSE @]
    ELSE lg

OriginIssue(og, token, instance, via) ==
    MapSet(og, token, [instance |-> instance, via |-> via])

\* What a caller may present as a token.
Candidates == IssuedTokens \cup {"invalid-token", "", NULL, UNDEFINED}

(***************************************************************************)
(* Initial state: module load.                                             *)
(***************************************************************************)
Init ==
    /\ now = 0
    /\ ticks = 0
    /\ tokens = EmptyMap
    /\ issued = 0
    /\ window \in BOOLEAN
    /\ localStorage \in (IF window THEN {NULL, "sess-1"} ELSE {NULL})
    /\ ledger = EmptyMap
    /\ sessions = EmptyMap
    /\ sessionLedger = EmptyMap
    /\ requests = EmptyMap
    /\ origin = EmptyMap
    /\ call = [op |-> "load"]

(***************************************************************************)
(* Actions.                                                                *)
(***************************************************************************)
Tick ==
    \E d \in TickSteps :
        /\ ticks < MaxTicks
        /\ now' = now + d
        /\ ticks' = ticks + 1
        /\ call' = [op |-> "tick"]
        /\ UNCHANGED <<tokens, issued, window, localStorage, ledger, sessions,
                       sessionLedger, requests, origin>>

GenerateCSRFToken ==
    \E config \in CSRFConfigs, sessionId \in SessionIds :
        /\ issued < MaxTokens
        /\ LET token == generateSecureToken(issued + 1)
               r == generateCSRFToken(config, tokens, sessionId, token, now)
           IN  /\ tokens' = r.tokens
               /\ issued' = IF config.enableCSRF THEN issued + 1 ELSE issued
               /\ ledger' = IF config.enableCSRF
                            THEN LedgerIssue(ledger, token, sessionId, issued + 1)
                            ELSE ledger
               /\ origin' = IF config.enableCSRF
                            THEN OriginIssue(origin, token, "securityMiddleware",
                                             "generateCSRFToken")
                            ELSE origin
               /\ call' = [op |-> "generateCSRFToken", enableCSRF |-> config.enableCSRF,
                           sessionId |-> sessionId, ret |-> r.ret]
        /\ UNCHANGED <<now, ticks, window, localStorage, sessions, sessionLedger,
                       requests>>

ValidateCSRFToken ==
    \E config \in CSRFConfigs, sessionId \in SessionIds, token \in Candidates :
        /\ LET r == validateCSRFToken(config, tokens, sessionId, token, now)
           IN  /\ tokens' = r.tokens
               /\ ledger' = IF config.enableCSRF /\ r.ret
                            THEN LedgerSuccess(ledger, token)
                            ELSE ledger
               /\ call' = [op |-> "validateCSRFToken", enableCSRF |-> config.enableCSRF,
                           sessionId |-> sessionId, token |-> token,
                           tokenData |-> MapGet(tokens, sessionId),
                           ret |-> r.ret]
        /\ UNCHANGED <<now, ticks, issued, window, localStorage, sessions,
                       sessionLedger, requests, origin>>

\* setInterval(() => defaultCSRFProtection.cleanup(), 15 min): registered in
\* the browser by middleware.ts and on the server by index.ts.
Cleanup ==
    /\ tokens' = cleanup(tokens, now)
    /\ call' = [op |-> "cleanup"]
    /\ UNCHANGED <<now, ticks, issued, window, localStorage, ledger, sessions,
                   sessionLedger, requests, origin>>

(***************************************************************************)
(* Inputs of the facade calls.                                             *)
(***************************************************************************)
MethodInputs ==
    {<<>>, <<"G", "E", "T">>, <<"H", "E", "A", "D">>, <<"P", "O", "S", "T">>,
     <<"P", "U", "T">>, <<"P", "A", "T", "C", "H">>,
     <<"D", "E", "L", "E", "T", "E">>, <<"p", "o", "s", "t">>,
     <<"D", "e", "l", "e", "t", "e">>, <<"p", "o", "U+017F", "t">>}

HeaderInputs ==
    {NoHeaders, [k \in {"X-CSRF-Token"} |-> <<"caller-token">>]}

StringInputs ==
    {<<>>, <<"hello">>, <<"<script>alert(1)</script>", "user">>,
     <<"<b>", "hello">>}

LeafInputs ==
    {JString(str) : str \in StringInputs}
        \cup {JNumber(123), JBoolean(TRUE), JNull, JUndefined}

JSONLeafInputs == {v \in LeafInputs : v.kind # "undefined"}

\* Plain objects, one level and nested, and arrays.
FormInputs ==
    {JObject(<<>>)}
        \cup {JObject(<<<<<<"f", "i", "e", "l", "d">>, v>>>>) : v \in LeafInputs}
        \cup {JObject(<<<<<<"n", "a", "m", "e">>, JString(s1)>>, <<<<"c", "o", "m", "m", "e", "n", "t">>, JString(s2)>>>>) :
                s1 \in StringInputs, s2 \in StringInputs}
        \cup {JObject(<<<<<<"n", "e", "s", "t", "e", "d">>, JObject(<<<<<<"d", "e", "e", "p">>, v>>>>)>>>>) : v \in LeafInputs}
        \cup {JObject(<<<<<<"l", "i", "s", "t">>, JArray(<<v>>)>>>>) : v \in LeafInputs}
        \cup {JObject(<<<<<<"l", "i", "s", "t">>, JArray(<<>>)>>>>)}
        \cup {JFormData(<<<<<<"f", "i", "l", "e">>, JFile("report.pdf", host)>>, <<<<"n", "o", "t", "e">>, JString(str)>>>>) :
                str \in StringInputs, host \in Hosts}

\* The object of the deep-nesting test: levels i..n, each holding a string
\* `value` and, but for the last, the next level under `nested`.
RECURSIVE DeepLevel(_, _)
DeepLevel(i, n) ==
    JObject(IF i = n
            THEN <<<<<<"v", "a", "l", "u", "e">>, JString(<<"<script>alert(1)</script>">>)>>>>
            ELSE <<<<<<"v", "a", "l", "u", "e">>, JString(<<"<script>alert(1)</script>">>)>>,
                   <<<<"n", "e", "s", "t", "e", "d">>, DeepLevel(i + 1, n)>>>>)

DeepObject(n) == JObject(<<<<<<"n", "e", "s", "t", "e", "d">>, DeepLevel(1, n)>>>>)

SQLKeywords == {"DROP", "INSERT", "UPDATE", "DELETE", "UNION", "SELECT"}

SQLSeparators == {";", "--"}

\* '; DROP TABLE users; --  and  ' UNION SELECT password FROM users--
SQLInputs ==
    {<<"'", ";", " ", "DROP", " TABLE users", ";", " ", "--">>,
     <<"'", " ", "UNION", " ", "SELECT", " password FROM users", "--">>}

\* Objects of mixed leaves, of up to MaxDepth nested levels (the test nests
\* 100), with arrays of several
\* elements, and with SQL-injection-shaped strings.
MoreFormInputs ==
    {JObject(<<<<<<"s", "t", "r", "i", "n", "g", "F", "i", "e", "l", "d">>, JString(<<"<script>alert(1)</script>", "user">>)>>,
               <<<<"n", "u", "m", "b", "e", "r", "F", "i", "e", "l", "d">>, JNumber(123)>>,
               <<<<"b", "o", "o", "l", "e", "a", "n", "F", "i", "e", "l", "d">>, JBoolean(TRUE)>>,
               <<<<"n", "u", "l", "l", "F", "i", "e", "l", "d">>, JNull>>,
               <<<<"u", "n", "d", "e", "f", "i", "n", "e", "d", "F", "i", "e", "l", "d">>, JUndefined>>>>),
     JObject(<<<<<<"e", "d", "g", "e">>, JArray(<<>>)>>>>),
     JObject(<<<<<<"e", "d", "g", "e">>, JObject(<<>>)>>>>),
     JObject(<<<<<<"t", "a", "g", "s">>, JArray(<<JString(<<"<b>", "hello">>),
                                  JString(<<"user">>), JNumber(123)>>)>>>>)}
        \cup {JObject(<<<<<<"s", "e", "a", "r", "c", "h", "Q", "u", "e", "r", "y">>, JString(str)>>>>) : str \in SQLInputs}
        \cup {DeepObject(n) : n \in 1..MaxDepth}

\* A string in place of the object; keys that are array indices, written
\* after other keys; and an own key named __proto__, as JSON.parse creates
\* it, holding an object, a string or null; and for each runtime a field
\* named __proto__ holding a File, which becomes the prototype of the object
\* built, with a field named after an accessor of the File class or not.
PropertyInputs ==
    {JString(<<"hello">>), JString(<<"<b>", "hello">>),
     JObject(<<<<<<"1">>, JString(<<"user">>)>>, <<<<"b">>, JString(<<"<b>", "hello">>)>>>>),
     JFormData(<<<<<<"b">>, JString(<<"hello">>)>>, <<<<"1">>, JString(<<"user">>)>>>>),
     JFormData(<<<<<<"1", "0">>, JString(<<"hello">>)>>, <<<<"2">>, JString(<<"user">>)>>>>),
     JFormData(<<<<ProtoKey, JString(<<"hello">>)>>, <<<<"b">>, JString(<<"user">>)>>>>),
     JObject(<<<<ProtoKey, JObject(<<<<<<"a">>, JString(<<"<b>", "hello">>)>>>>)>>,
               <<<<"b">>, JString(<<"user">>)>>>>),
     JObject(<<<<ProtoKey, JString(<<"hello">>)>>, <<<<"b">>, JString(<<"user">>)>>>>),
     JObject(<<<<ProtoKey, JNull>>, <<<<"b">>, JString(<<"user">>)>>>>),
     JObject(<<<<<<"p", "r", "o", "f", "i", "l", "e">>, JObject(<<<<ProtoKey, JObject(<<>>)>>,
                                      <<<<"n", "a", "m", "e">>, JString(<<"user">>)>>>>)>>>>),
     JFormData(<<<<<<"b">>, JString(<<"hello">>)>>,
                 <<<<"4", "2", "9", "4", "9", "6", "7", "2", "9", "5">>, JString(<<"user">>)>>,
                 <<<<"4", "2", "9", "4", "9", "6", "7", "2", "9", "4">>, JString(<<"hello">>)>>,
                 <<<<"0", "1">>, JString(<<"user">>)>>,
                 <<<<"1", "0", "0", "0">>, JString(<<"hello">>)>>>>),
     JObject(<<<<<<"1", "0", "0", "0">>, JString(<<"<b>", "hello">>)>>,
               <<<<"4", "2", "9", "4", "9", "6", "7", "2", "9", "4">>, JString(<<"user">>)>>,
               <<<<"4", "2", "9", "4", "9", "6", "7", "2", "9", "5">>, JString(<<"hello">>)>>,
               <<<<"b">>, JNumber(1)>>>>)}
        \cup UNION {
            {JFormData(<<<<ProtoKey, JFile("report.pdf", host)>>, <<key, JString(<<"hello">>)>>>>) :
                key \in {<<"n", "a", "m", "e">>, <<"s", "i", "z", "e">>, <<"n", "o", "t", "e">>,
                         <<"w", "e", "b", "k", "i", "t", "R", "e", "l", "a", "t", "i", "v", "e",
                           "P", "a", "t", "h">>,
                         <<"l", "a", "s", "t", "M", "o", "d", "i", "f", "i", "e", "d",
                           "D", "a", "t", "e">>}}
            \cup {JFormData(<<<<<<"n", "a", "m", "e">>, JString(<<"user">>)>>,
                              <<ProtoKey, JFile("report.pdf", host)>>,
                              <<<<"n", "a", "m", "e">>, JString(<<"<b>", "hello">>)>>>>),
                  JObject(<<<<<<"p", "r", "o", "f", "i", "l", "e">>,
                             JObject(<<<<ProtoKey, JFile("report.pdf", host)>>>>)>>>>)} :
            host \in Hosts}

SafeMethodInputs == {<<>>, <<"G", "E", "T">>}

FetchBodyInputs ==
    {JUndefined, JSONText(JObject(<<<<<<"d", "a", "t", "a">>, JString(<<"hello">>)>>>>))}

BodyInputs ==
    {JUndefined,
     [kind |-> "text", val |-> "invalid-json"],
     JFormData(<<<<<<"f", "i", "l", "e">>, JString(<<"binary-data">>)>>>>),
     JSONText(JNull), JSONText(JString(<<"hello">>))}
        \cup {JSONText(JObject(<<<<<<"u", "s", "e", "r", "n", "a", "m", "e">>, JString(str)>>>>)) :
                str \in StringInputs}

ParamInputs ==
    {<<>>}
        \cup {<<<<k, v>>>> : k \in StringInputs \ {<<>>}, v \in StringInputs}
        \cup {<<<<<<"page">>, <<"1">>>>, <<<<"q">>, v>>>> : v \in StringInputs}

\* One secureFetch(url, options) call on an instance with this config.
SecureFetchCall(config, method, headers, body) ==
    \E uuid \in UUIDs :
    \E r \in {secureFetch(config, [method |-> method, headers |-> headers,
                                   body |-> body],
                          tokens, window, localStorage, uuid,
                          generateSecureToken(issued + 1), now)} :
        /\ r.issued # <<>> => issued < MaxTokens
        /\ tokens' = r.tokens
        /\ localStorage' = r.localStorage
        /\ issued' = IF r.issued # <<>> THEN issued + 1 ELSE issued
        /\ ledger' = IF r.issued # <<>>
                     THEN LedgerIssue(ledger, generateSecureToken(issued + 1),
                                      r.issued[1], issued + 1)
                     ELSE ledger
        /\ origin' = IF r.issued # <<>>
                     THEN OriginIssue(origin, generateSecureToken(issued + 1),
                                      "securityMiddleware", "secureFetch")
                     ELSE origin
        /\ call' = [op |-> "secureFetch", config |-> config,
                    options |-> [method |-> method, headers |-> headers,
                                 body |-> body],
                    request |-> r.request]
        /\ UNCHANGED <<now, ticks, window, sessions, sessionLedger, requests>>

\* Requests of every method, with and without a caller-supplied token header.
SecureFetch ==
    \E config \in SanitizingConfigs, method \in MethodInputs,
       headers \in HeaderInputs, body \in FetchBodyInputs :
        SecureFetchCall(config, method, headers, body)

\* Requests that carry a body, sent with a safe method.
SecureFetchBody ==
    \E config \in Configs, method \in SafeMethodInputs, body \in BodyInputs :
        SecureFetchCall(config, method, NoHeaders, body)

\* validateCSRFToken for the session id the browser has stored.
ValidateStoredSession ==
    \E config \in CSRFConfigs, token \in Candidates \cup {"caller-token"} :
        /\ localStorage # NULL
        /\ LET r == validateCSRFToken(config, tokens, localStorage, token, now)
           IN  /\ tokens' = r.tokens
               /\ ledger' = IF config.enableCSRF /\ r.ret
                            THEN LedgerSuccess(ledger, token)
                            ELSE ledger
               /\ call' = [op |-> "validateCSRFToken",
                           enableCSRF |-> config.enableCSRF,
                           sessionId |-> localStorage, token |-> token,
                           tokenData |-> MapGet(tokens, localStorage),
                           ret |-> r.ret]
        /\ UNCHANGED <<now, ticks, issued, window, localStorage, sessions,
                       sessionLedger, requests, origin>>

ApplySecurityHeaders ==
    \E config \in Configs :
        /\ call' = [op |-> "applySecurityHeaders", config |-> config,
                    ret |-> applySecurityHeaders(config)]
        /\ UNCHANGED <<now, ticks, tokens, issued, window, localStorage,
                       ledger, sessions, sessionLedger, requests, origin>>

SanitizeFormData ==
    \E config \in Configs,
       formData \in FormInputs \cup MoreFormInputs \cup PropertyInputs :
        /\ call' = [op |-> "sanitizeFormData", config |-> config,
                    input |-> formData,
                    inputAfter |-> formDataAfter(config, formData),
                    ret |-> sanitizeFormData(config, formData)]
        /\ UNCHANGED <<now, ticks, tokens, issued, window, localStorage,
                       ledger, sessions, sessionLedger, requests, origin>>

SanitizeURLParams ==
    \E config \in Configs, params \in ParamInputs :
        /\ call' = [op |-> "sanitizeURLParams", config |-> config,
                    input |-> params,
                    ret |-> sanitizeURLParams(config, params)]
        /\ UNCHANGED <<now, ticks, tokens, issued, window, localStorage,
                       ledger, sessions, sessionLedger, requests, origin>>

Next ==
    \/ Tick
    \/ GenerateCSRFToken
    \/ ValidateCSRFToken
    \/ Cleanup

\* The CSRF token manager driven through the facade, with the clock and
\* the periodic sweep.
Spec == Init /\ [][Next]_vars

\* The fetch wrapper with the validations of the tokens it attaches.
NextFetch ==
    \/ SecureFetch
    \/ ValidateStoredSession
    \/ Cleanup

FetchSpec == Init /\ [][NextFetch]_vars

\* The stateless facade calls.
NextFacade ==
    \/ ApplySecurityHeaders
    \/ SanitizeFormData
    \/ SanitizeURLParams
    \/ SecureFetchBody

FacadeSpec == Init /\ [][NextFacade]_vars

(***************************************************************************)
(* File validation calls.                                                  *)
(***************************************************************************)
FileNameInputs ==
    {<<"t", "e", "s", "t", ".", "j", "p", "g">>,
     <<"n", "o", "t", "e", "s", ".", "t", "x", "t">>,
     <<"m", "a", "l", "w", "a", "r", "e", ".", "e", "x", "e">>,
     <<"i", "n", "v", "o", "i", "c", "e", ".", "p", "d", "f", ".", "e", "x", "e">>,
     <<"f", "a", "k", "e", "-", "i", "m", "a", "g", "e", ".", "e", "x", "e",
       ".", "j", "p", "g">>,
     <<"S", "e", "t", "u", "p", ".", "E", "X", "E">>,
     <<"s", "c", "r", "i", "p", "t", ".", "b", "a", "t">>,
     <<"b", "a", "c", "k", "d", "o", "o", "r", ".", "c", "m", "d">>,
     <<"t", "r", "o", "j", "a", "n", ".", "s", "c", "r">>,
     <<"v", "i", "r", "u", "s", ".", "c", "o", "m">>,
     <<"a", ".", "p", "i", "f">>,
     <<"p", "a", "y", "l", "o", "a", "d", ".", "v", "b", "s">>,
     <<"a", "p", "p", ".", "J", "s">>,
     <<"e", "x", "p", "l", "o", "i", "t", ".", "j", "a", "r">>,
     <<"e", "x", "e">>,
     <<"m", "y", " ", "f", "i", "l", "e", ".", ".", "e", "x", "e", ".">>,
     <<"a", ".", "j", "U+017F">>,
     <<"U+0391", "U+03A3", ".", "U+FF25", "U+FF38", "U+FF25">>}

FileTypeInputs == {"image/jpeg", "application/pdf", "application/x-executable"}

FileSizeInputs == {1024, maxSize, maxSize + 1}

\* Leading bytes of a PE, an ELF, a Java class and a Mach-O file, of a JPEG
\* and a text file, a lone 4D, and an empty content.
FileContentInputs ==
    {<<77, 90, 144, 0>>, <<127, 69, 76, 70, 2>>, <<202, 254, 186, 190>>,
     <<254, 237, 250, 206, 7>>, <<255, 216, 255, 224>>, <<104, 105>>,
     <<77>>, <<>>}

\* The File objects handed to validateFileUpload.
UploadInputs ==
    {[name |-> name, type |-> type, size |-> size] :
        name \in FileNameInputs, type \in FileTypeInputs, size \in FileSizeInputs}

\* The descriptors handed to validateFile, without and with content bytes.
DescriptorInputs ==
    {[name |-> name, type |-> type, size |-> size, content |-> content] :
        name \in {<<"t", "e", "s", "t", ".", "j", "p", "g">>,
                  <<"m", "a", "l", "w", "a", "r", "e", ".", "e", "x", "e">>,
                  <<"m", "y", " ", "f", "i", "l", "e", ".", ".", "e", "x", "e", ".">>},
        type \in {"image/jpeg", "application/x-executable"},
        size \in {1024, maxSize + 1},
        content \in {<<>>} \cup {<<c>> : c \in FileContentInputs}}

ValidateFileUpload ==
    \E file \in UploadInputs :
        /\ call' = [op |-> "validateFileUpload", file |-> file,
                    ret |-> validateFileUpload(file)]
        /\ UNCHANGED <<now, ticks, tokens, issued, window, localStorage,
                       ledger, sessions, sessionLedger, requests, origin>>

ValidateFile ==
    \E file \in DescriptorInputs :
        /\ call' = [op |-> "validateFile", file |-> file,
                    ret |-> validateFile(file)]
        /\ UNCHANGED <<now, ticks, tokens, issued, window, localStorage,
                       ledger, sessions, sessionLedger, requests, origin>>

\* Names with path separators, spaces, a non-ASCII letter, runs of dots,
\* leading and trailing dots, nothing but dots, no character at all, and two
\* names longer than 255 characters: 300 letters, and 254 letters followed
\* by ".b".
FilenameInputs ==
    FileNameInputs
        \cup {<<".", ".", "/", ".", ".", "/", "e", "t", "c", "/", "p", "a", "s",
                "s", "w", "d">>,
              <<".", ".", "h", "i", "d", "d", "e", "n", ".", ".">>,
              <<"r", "é", "s", "u", "m", "é", ".", "p", "d", "f">>,
              <<".", ".", ".">>,
              <<>>,
              [i \in 1..300 |-> "a"],
              [i \in 1..256 |-> IF i = 255 THEN "." ELSE IF i = 256 THEN "b" ELSE "a"]}

SanitizeFilename ==
    \E filename \in FilenameInputs :
        /\ call' = [op |-> "sanitizeFilename", input |-> filename,
                    ret |-> sanitizeFilename(filename)]
        /\ UNCHANGED <<now, ticks, tokens, issued, window, localStorage, ledger,
                       sessions, sessionLedger, requests, origin>>

NextFile ==
    \/ ValidateFileUpload
    \/ ValidateFile
    \/ SanitizeFilename

FileSpec == Init /\ [][NextFile]_vars

(***************************************************************************)
(* The session registry defaultSessionSecurity, the clock and the timers   *)
(* that the two modules register when they are loaded.                     *)
(***************************************************************************)
UserIds == {"user-1", "user-2"}

IpAddresses == {"10.0.0.1", "10.0.0.2"}

SessionTickSteps == {maxIdleTime, maxSessionAge}

\* The session ids the secure random source can have produced.
SessionIdSet == {generateSecureSessionId(n) : n \in 1..MaxSessions}

SessionTick ==
    \E d \in SessionTickSteps :
        /\ now + d <= MaxHours * 60 * 60 * 1000
        /\ now' = now + d
        /\ call' = [op |-> "tick"]
        /\ UNCHANGED <<ticks, tokens, issued, window, localStorage, ledger,
                       sessions, sessionLedger, requests, origin>>

CreateSession ==
    \E userId \in UserIds, ipAddress \in {"10.0.0.1"} :
        /\ Cardinality(DOMAIN sessionLedger) < MaxSessions
        /\ LET sessionId ==
                   generateSecureSessionId(Cardinality(DOMAIN sessionLedger) + 1)
               r == createSession(sessions, sessionId, userId, ipAddress,
                                  "agent-1", now)
           IN  /\ sessions' = r.sessions
               /\ sessionLedger' =
                      MapSet(sessionLedger, sessionId,
                             [userId |-> userId, created |-> now])
               /\ call' = [op |-> "createSession", userId |-> userId,
                           ipAddress |-> ipAddress, ret |-> r.ret]
        /\ UNCHANGED <<now, ticks, tokens, issued, window, localStorage,
                       ledger, requests, origin>>

ValidateSession ==
    \E sessionId \in DOMAIN sessionLedger \cup {"unknown-session"},
       ipAddress \in IpAddresses, userAgent \in {"agent-2"} :
        /\ LET r == validateSession(sessions, sessionId, ipAddress, userAgent, now)
           IN  /\ sessions' = r.sessions
               /\ call' = [op |-> "validateSession", sessionId |-> sessionId,
                           ipAddress |-> ipAddress, userAgent |-> userAgent,
                           session |-> MapGet(sessions, sessionId),
                           ret |-> r.ret]
        /\ UNCHANGED <<now, ticks, tokens, issued, window, localStorage, ledger,
                       sessionLedger, requests, origin>>

DestroySession ==
    \E sessionId \in DOMAIN sessionLedger \cup {"unknown-session"} :
        /\ sessions' = destroySession(sessions, sessionId)
        /\ call' = [op |-> "destroySession", sessionId |-> sessionId]
        /\ UNCHANGED <<now, ticks, tokens, issued, window, localStorage, ledger,
                       sessionLedger, requests, origin>>

\* index.ts, when typeof window === 'undefined':
\* setInterval(() => { defaultCSRFProtection.cleanup();
\*                     defaultSessionSecurity.cleanup(); }, 15 min)
ServerSweep ==
    /\ ~window
    /\ tokens' = cleanup(tokens, now)
    /\ sessions' = cleanupSessions(sessions, now)
    /\ call' = [op |-> "serverSweep"]
    /\ UNCHANGED <<now, ticks, issued, window, localStorage, ledger,
                   sessionLedger, requests, origin>>

\* middleware.ts, when typeof window !== 'undefined':
\* setInterval(() => { defaultCSRFProtection.cleanup(); }, 15 min)
BrowserSweep ==
    /\ window
    /\ tokens' = cleanup(tokens, now)
    /\ call' = [op |-> "browserSweep"]
    /\ UNCHANGED <<now, ticks, issued, window, localStorage, ledger, sessions,
                   sessionLedger, requests, origin>>

NextSession ==
    \/ SessionTick
    \/ CreateSession
    \/ ValidateSession
    \/ DestroySession
    \/ ServerSweep
    \/ BrowserSweep

\* The registry is used on the server and in a browser that has stored no
\* session id for the fetch wrapper.
SessionInit == Init /\ localStorage = NULL

SessionSpec == SessionInit /\ [][NextSession]_vars

\* The same system with the registered timers firing again and again.
SessionLiveSpec ==
    /\ SessionInit
    /\ [][NextSession]_vars
    /\ WF_vars(ServerSweep)
    /\ WF_vars(BrowserSweep)

(***************************************************************************)
(* Two requests that present the same token at the same moment.  Each      *)
(* validateToken call runs to completion in its own turn of the event      *)
(* loop; the sweep timer can fire before, between or after the two turns.  *)
(***************************************************************************)
Callers == {"request-1", "request-2"}

\* The result of a request is <<>> while it waits and <<boolean>> afterwards.
NonePending == \A c \in DOMAIN requests : requests[c].ret # <<>>

\* A token is issued, for any session, whether or not requests are waiting.
RaceIssue == GenerateCSRFToken

\* Both requests arrive with the token now stored, unused and unexpired, for
\* a session.
RaceSubmit ==
    \E sessionId \in DOMAIN tokens :
        /\ NonePending
        /\ ~tokens[sessionId].used
        /\ ~(now > tokens[sessionId].expires)
        /\ requests' = [c \in Callers |->
                           [sessionId |-> sessionId,
                            token |-> tokens[sessionId].token,
                            ret |-> <<>>]]
        /\ call' = [op |-> "submit", sessionId |-> sessionId]
        /\ UNCHANGED <<now, ticks, tokens, issued, window, localStorage, ledger,
                       sessions, sessionLedger, origin>>

\* The turn of one waiting request: defaultCSRFProtection.validateToken.
RaceValidate ==
    \E c \in DOMAIN requests :
        /\ requests[c].ret = <<>>
        /\ LET r == validateToken(tokens, requests[c].sessionId,
                                  requests[c].token, now)
           IN  /\ tokens' = r.tokens
               /\ requests' = [requests EXCEPT ![c].ret = <<r.ret>>]
               /\ ledger' = IF r.ret
                            THEN LedgerSuccess(ledger, requests[c].token)
                            ELSE ledger
               /\ call' = [op |-> "validateToken", caller |-> c,
                           sessionId |-> requests[c].sessionId,
                           token |-> requests[c].token,
                           tokenData |-> MapGet(tokens, requests[c].sessionId),
                           ret |-> r.ret]
        /\ UNCHANGED <<now, ticks, issued, window, localStorage, sessions,
                       sessionLedger, origin>>

NextRace ==
    \/ RaceIssue
    \/ RaceSubmit
    \/ RaceValidate
    \/ Cleanup

RaceSpec == Init /\ [][NextRace]_vars

(***************************************************************************)
(* Two SecurityMiddleware instances, both built with the default config.   *)
(* Their generateCSRFToken and validateCSRFToken work on the module's one  *)
(* defaultCSRFProtection, that is on the variable tokens.                  *)
(***************************************************************************)
Instances == {"middleware-A", "middleware-B"}

DefaultConfig ==
    [enableCSRF |-> TRUE, enableSecurityHeaders |-> TRUE,
     enableInputSanitization |-> TRUE]

InstanceGenerate ==
    \E instance \in Instances, sessionId \in SessionIds :
        /\ issued < MaxTokens
        /\ LET token == generateSecureToken(issued + 1)
               r == generateCSRFToken(DefaultConfig, tokens, sessionId, token, now)
           IN  /\ tokens' = r.tokens
               /\ issued' = issued + 1
               /\ ledger' = LedgerIssue(ledger, token, sessionId, issued + 1)
               /\ origin' = OriginIssue(origin, token, instance, "generateCSRFToken")
               /\ call' = [op |-> "generateCSRFToken", instance |-> instance,
                           enableCSRF |-> TRUE, sessionId |-> sessionId,
                           ret |-> r.ret]
        /\ UNCHANGED <<now, ticks, window, localStorage, sessions, sessionLedger,
                       requests>>

InstanceValidate ==
    \E instance \in Instances, sessionId \in SessionIds, token \in Candidates :
        /\ LET r == validateCSRFToken(DefaultConfig, tokens, sessionId, token, now)
           IN  /\ tokens' = r.tokens
               /\ ledger' = IF r.ret THEN LedgerSuccess(ledger, token) ELSE ledger
               /\ call' = [op |-> "validateCSRFToken", instance |-> instance,
                           enableCSRF |-> TRUE, sessionId |-> sessionId,
                           token |-> token,
                           tokenData |-> MapGet(tokens, sessionId),
                           ret |-> r.ret]
        /\ UNCHANGED <<now, ticks, issued, window, localStorage, sessions,
                       sessionLedger, requests, origin>>

NextInstance ==
    \/ InstanceGenerate
    \/ InstanceValidate

InstanceSpec == Init /\ [][NextInstance]_vars

\* Form tokens and the fetch wrapper used side by side on the same page.
NextInterleave ==
    \/ GenerateCSRFToken
    \/ SecureFetch
    \/ ValidateCSRFToken

InterleaveSpec == Init /\ [][NextInterleave]_vars

(***************************************************************************)
(* Properties of the CSRF token manager.                                   *)
(***************************************************************************)
\* The call just made is validateCSRFToken on an instance with CSRF enabled.
IsValidate == call.op = "validateCSRFToken" /\ call.enableCSRF

\* The call just made is generateCSRFToken on an instance with CSRF enabled.
IsGenerate == call.op = "generateCSRFToken" /\ call.enableCSRF

\* The record validateToken read (tokens.get(sessionId)) held exactly the
\* presented token, unused and unexpired.
ReadFreshMatch ==
    /\ call.tokenData # <<>>
    /\ ~call.tokenData[1].used
    /\ ~(now > call.tokenData[1].expires)
    /\ call.tokenData[1].token = call.token

\* C1: one-time use.  No issued token ever makes validateCSRFToken return
\* true more than once, and a validation that presents the unused, unexpired
\* token stored for its own session returns true.
C1_OneTimeUse ==
    /\ \A tkn \in DOMAIN ledger : ledger[tkn].validations <= 1
    /\ (IsValidate /\ ReadFreshMatch) => call.ret = TRUE

\* A replay: the token already validated once for its session, is presented
\* again for the same session and is refused.
C1_Witness ==
    /\ IsValidate
    /\ call.token \in DOMAIN ledger
    /\ ledger[call.token].validations = 1
    /\ ledger[call.token].sessionId = call.sessionId
    /\ call.tokenData # <<>>
    /\ call.tokenData[1].token = call.token
    /\ call.tokenData[1].used
    /\ call.ret = FALSE

\* C2: session isolation.  A token issued for one session never validates
\* for another session: every such attempt returns false, whatever record
\* the other session holds.
C2_SessionIsolation ==
    (/\ IsValidate
     /\ call.token \in DOMAIN ledger
     /\ ledger[call.token].sessionId # call.sessionId)
    => call.ret = FALSE

\* A live token of sess-1 is presented for a session that holds its own
\* unused, unexpired record, and is refused.
C2_Witness ==
    /\ IsValidate
    /\ call.token \in DOMAIN ledger
    /\ ledger[call.token].sessionId # call.sessionId
    /\ ledger[call.token].validations = 0
    /\ ledger[call.token].sessionId \in DOMAIN tokens
    /\ tokens[ledger[call.token].sessionId].token = call.token
    /\ ~tokens[ledger[call.token].sessionId].used
    /\ call.tokenData # <<>>
    /\ ~call.tokenData[1].used
    /\ ~(now > call.tokenData[1].expires)
    /\ call.ret = FALSE

\* The tokens issued for session s before the latest one.
Superseded(s) ==
    {tkn \in DOMAIN ledger :
        /\ ledger[tkn].sessionId = s
        /\ \E later \in DOMAIN ledger :
              ledger[later].sessionId = s /\ ledger[later].n > ledger[tkn].n}

\* C3: re-issuance overwrites.  Right after generateToken(S) the record of S
\* is {new token, expires = now + 1 hour, used = false} and the new token
\* would validate; a token issued for S before the latest one never
\* validates again for S.
C3_ReissueOverwrites ==
    /\ IsGenerate =>
          /\ call.sessionId \in DOMAIN tokens
          /\ tokens[call.sessionId] =
                [token |-> call.ret, expires |-> now + tokenExpiry, used |-> FALSE]
          /\ ledger[call.ret].validations = 0
          /\ validateToken(tokens, call.sessionId, call.ret, now).ret = TRUE
    /\ \A s \in DOMAIN tokens : tokens[s].token \notin Superseded(s)
    /\ (IsValidate /\ call.token \in Superseded(call.sessionId))
          => call.ret = FALSE

\* The second token of a session has just been issued over a record that was
\* still unused.
C3_Witness ==
    /\ IsGenerate
    /\ Superseded(call.sessionId) # {}
    /\ \E old \in Superseded(call.sessionId) : ledger[old].validations = 0
    /\ tokens[call.sessionId].token = call.ret

\* The superseded token is presented for its session and refused.
C3_WitnessOldRefused ==
    /\ IsValidate
    /\ call.token \in Superseded(call.sessionId)
    /\ ledger[call.token].validations = 0
    /\ ~call.tokenData[1].used
    /\ call.ret = FALSE

\* C4: validateCSRFToken returns a boolean, and true exactly when a record
\* exists for the session, is unused, is unexpired and holds the candidate;
\* no record, a used or expired record, a mismatch and an empty, null or
\* undefined candidate all give false.
C4_ValidateExactly ==
    IsValidate =>
        /\ call.ret \in BOOLEAN
        /\ call.ret = ReadFreshMatch

\* A null candidate against a fresh record is answered false.
C4_Witness ==
    /\ IsValidate
    /\ call.token \in {"", NULL, UNDEFINED}
    /\ call.tokenData # <<>>
    /\ ~call.tokenData[1].used
    /\ ~(now > call.tokenData[1].expires)
    /\ call.ret = FALSE

\* C5 as stated: the token map never holds a consumed record.
C5_Original ==
    \A s \in DOMAIN tokens : ~tokens[s].used

\* C5 amended: a successful validation keeps the record of S in the map and
\* only sets used = true; a consumed record leaves the map (or is replaced)
\* only by a cleanup() sweep or by generateToken(S), and a sweep leaves no
\* consumed record behind.
C5_ConsumedKeptUntilSweep ==
    [][/\ (call'.op = "validateCSRFToken" /\ call'.enableCSRF /\ call'.ret)
            => /\ call'.sessionId \in DOMAIN tokens
               /\ tokens' = [tokens EXCEPT ![call'.sessionId].used = TRUE]
       /\ \A s \in DOMAIN tokens :
            (tokens[s].used /\ (s \notin DOMAIN tokens' \/ tokens'[s] # tokens[s]))
            => \/ call'.op = "cleanup"
               \/ call'.op = "generateCSRFToken" /\ call'.sessionId = s
       /\ call'.op = "cleanup" => \A s \in DOMAIN tokens' : ~tokens'[s].used
      ]_vars

\* Right after a successful validation the consumed record is in the map.
C5_Witness ==
    /\ IsValidate
    /\ call.ret = TRUE
    /\ call.sessionId \in DOMAIN tokens
    /\ tokens[call.sessionId].used
    /\ tokens[call.sessionId].token = call.token

\* C6 as stated: a validation that finds the record of S past its expiry
\* returns false and leaves no record for S, whatever the record's history.
C6_Original ==
    (/\ IsValidate
     /\ call.tokenData # <<>>
     /\ now > call.tokenData[1].expires)
    => /\ call.ret = FALSE
       /\ call.sessionId \notin DOMAIN tokens

\* C6 amended: a validation that finds the record of S unused and past its
\* expiry returns false and deletes it, for every candidate; when the record
\* is already used the call returns false and leaves the record in place.
C6_ExpiredUnusedDeleted ==
    /\ (/\ IsValidate
        /\ call.tokenData # <<>>
        /\ ~call.tokenData[1].used
        /\ now > call.tokenData[1].expires)
       => /\ call.ret = FALSE
          /\ call.sessionId \notin DOMAIN tokens
    /\ (/\ IsValidate
        /\ call.tokenData # <<>>
        /\ call.tokenData[1].used)
       => /\ call.ret = FALSE
          /\ call.sessionId \in DOMAIN tokens
          /\ tokens[call.sessionId] = call.tokenData[1]

\* The right token arrives one millisecond too late: refused and deleted.
C6_Witness ==
    /\ IsValidate
    /\ call.tokenData # <<>>
    /\ ~call.tokenData[1].used
    /\ call.tokenData[1].token = call.token
    /\ now = call.tokenData[1].expires + 1
    /\ call.ret = FALSE
    /\ call.sessionId \notin DOMAIN tokens

\* C7: CSRF bypass by policy.  On an instance with enableCSRF = false,
\* generateCSRFToken returns '' and validateCSRFToken returns true for every
\* (sessionId, token), and neither call changes the token map.
C7_DisabledBypass ==
    [][/\ (call'.op = "generateCSRFToken" /\ ~call'.enableCSRF)
            => (call'.ret = "" /\ tokens' = tokens)
       /\ (call'.op = "validateCSRFToken" /\ ~call'.enableCSRF)
            => (call'.ret = TRUE /\ tokens' = tokens)
      ]_vars

\* A wrong token is accepted through a CSRF-disabled instance while the
\* session's real record stays untouched in the map.
C7_Witness ==
    /\ call.op = "validateCSRFToken"
    /\ ~call.enableCSRF
    /\ call.ret = TRUE
    /\ call.tokenData # <<>>
    /\ call.tokenData[1].token # call.token
    /\ tokens[call.sessionId] = call.tokenData[1]
    /\ ~tokens[call.sessionId].used

(***************************************************************************)
(* Properties of the fetch wrapper, the headers and the sanitizer.         *)
(***************************************************************************)
\* POST, PUT, PATCH and DELETE as a caller may spell them: every spelling
\* here has one of the four as its toUpperCase(), the long s of the last
\* one included.
MutatingSpellings ==
    {<<"P", "O", "S", "T">>, <<"P", "U", "T">>, <<"P", "A", "T", "C", "H">>,
     <<"D", "E", "L", "E", "T", "E">>, <<"p", "o", "s", "t">>,
     <<"D", "e", "l", "e", "t", "e">>, <<"p", "o", "U+017F", "t">>}

\* GET, HEAD and no method.
SafeSpellings == {<<>>, <<"G", "E", "T">>, <<"H", "E", "A", "D">>}

\* The X-CSRF-Token header of a header map: <<value>>, or <<>> when absent.
CSRFHeader(headers) ==
    IF "X-CSRF-Token" \in DOMAIN headers THEN <<headers["X-CSRF-Token"]>> ELSE <<>>

\* C8 as stated: every mutating request of a CSRF-enabled instance is
\* forwarded with X-CSRF-Token equal to the unused token stored for the
\* client's session id; GET, HEAD and method-less requests are forwarded
\* with no X-CSRF-Token header of the wrapper's.
C8_Original ==
    call.op = "secureFetch" =>
        /\ (call.options.method \in MutatingSpellings /\ call.config.enableCSRF)
              => /\ localStorage \in DOMAIN tokens
                 /\ ~tokens[localStorage].used
                 /\ CSRFHeader(call.request.headers)
                        = << <<tokens[localStorage].token>> >>
        /\ call.options.method \in SafeSpellings
              => CSRFHeader(call.request.headers) = CSRFHeader(call.options.headers)

\* C8 amended: in a browser (a window object exists) a POST, PUT, PATCH or
\* DELETE request, in any letter case, of a CSRF-enabled instance stores a
\* new token for the stored (or just provisioned) session id and forwards
\* it as X-CSRF-Token, so it validates for that session; with GET, HEAD or
\* no method, with CSRF disabled, and on the server (no window object, where
\* getSessionId returns '') the wrapper stores no token and forwards the
\* caller's headers without adding X-CSRF-Token.
C8_TokenForMutatingInBrowser ==
    [][call'.op = "secureFetch" =>
         IF /\ call'.options.method \in MutatingSpellings
            /\ call'.config.enableCSRF
            /\ window
         THEN /\ localStorage' \in DOMAIN tokens'
              /\ localStorage \notin {NULL, ""} => localStorage' = localStorage
              /\ tokens'[localStorage'].token \notin IssuedTokens
              /\ tokens'[localStorage'].expires = now + tokenExpiry
              /\ ~tokens'[localStorage'].used
              /\ CSRFHeader(call'.request.headers)
                    = << <<tokens'[localStorage'].token>> >>
              /\ \A s \in DOMAIN tokens :
                    s # localStorage' => (s \in DOMAIN tokens' /\ tokens'[s] = tokens[s])
              /\ validateToken(tokens', localStorage',
                               call'.request.headers["X-CSRF-Token"][1], now).ret
         ELSE /\ tokens' = tokens
              /\ issued' = issued
              /\ CSRFHeader(call'.request.headers)
                    = CSRFHeader(call'.options.headers)
      ]_vars

\* A lower-case 'post' in a browser replaced the caller's own X-CSRF-Token
\* by the token just stored for the session.
C8_Witness ==
    /\ call.op = "secureFetch"
    /\ call.options.method = <<"p", "o", "s", "t">>
    /\ call.config.enableCSRF
    /\ window
    /\ CSRFHeader(call.options.headers) = << <<"caller-token">> >>
    /\ localStorage \in DOMAIN tokens
    /\ CSRFHeader(call.request.headers) = << <<tokens[localStorage].token>> >>
    /\ ~tokens[localStorage].used

\* The directives the Content-Security-Policy is to carry.
CSPDirectives ==
    {"default-src", "script-src", "style-src", "img-src", "connect-src",
     "font-src", "frame-src"}

HasPart(value, part) == \E i \in 1..Len(value) : value[i] = part

\* C9: with header generation enabled applySecurityHeaders returns non-empty
\* Content-Security-Policy (with the seven directives),
\* Strict-Transport-Security, X-Frame-Options = DENY,
\* X-Content-Type-Options = nosniff, X-XSS-Protection, Referrer-Policy and a
\* Permissions-Policy denying camera, microphone, geolocation and payment;
\* disabled, it returns the empty mapping.
C9_Original ==
    call.op = "applySecurityHeaders" =>
        IF call.config.enableSecurityHeaders
        THEN /\ "Content-Security-Policy" \in DOMAIN call.ret
             /\ \A d \in CSPDirectives :
                   \E i \in 1..Len(call.ret["Content-Security-Policy"]) :
                       call.ret["Content-Security-Policy"][i][1] = d
             /\ "Strict-Transport-Security" \in DOMAIN call.ret
             /\ call.ret["Strict-Transport-Security"] # <<>>
             /\ "X-Frame-Options" \in DOMAIN call.ret
             /\ call.ret["X-Frame-Options"] = <<"DENY">>
             /\ "X-Content-Type-Options" \in DOMAIN call.ret
             /\ call.ret["X-Content-Type-Options"] = <<"nosniff">>
             /\ "X-XSS-Protection" \in DOMAIN call.ret
             /\ call.ret["X-XSS-Protection"] # <<>>
             /\ "Referrer-Policy" \in DOMAIN call.ret
             /\ call.ret["Referrer-Policy"] # <<>>
             /\ "Permissions-Policy" \in DOMAIN call.ret
             /\ \A p \in {"camera=()", "microphone=()", "geolocation=()", "payment=()"} :
                   HasPart(call.ret["Permissions-Policy"], p)
        ELSE call.ret = NoHeaders

\* C10: on an instance with enableInputSanitization = false every
\* sanitizing operation hands back its input unchanged: sanitizeFormData,
\* sanitizeURLParams and the JSON body forwarded by secureFetch.
C10_Original ==
    /\ (call.op = "sanitizeFormData" /\ ~call.config.enableInputSanitization)
          => call.ret = call.input
    /\ (call.op = "sanitizeURLParams" /\ ~call.config.enableInputSanitization)
          => call.ret = call.input
    /\ (/\ call.op = "secureFetch"
        /\ ~call.config.enableInputSanitization
        /\ call.options.body.kind = "jsontext")
          => call.request.body = call.options.body

(***************************************************************************)
(* Properties of file upload validation.                                   *)
(***************************************************************************)
\* The name ends with the extension written in any letter case: each of
\* its last characters is the extension's character or the capital of it.
EndsWithIgnoreCase(name, ext) ==
    /\ Len(ext) <= Len(name)
    /\ \A i \in 1..Len(ext) :
          LET c == name[Len(name) - Len(ext) + i]
          IN  c = ext[i] \/ <<c>> = UpperCaseOf(ext[i])

Denylisted(name) ==
    \E i \in 1..Len(dangerousExtensions) :
        EndsWithIgnoreCase(name, dangerousExtensions[i])

ExtensionError == "File extension is not allowed for security reasons"

SizeError == "File size exceeds maximum limit of 10MB"

InErrors(errors, message) == \E i \in 1..Len(errors) : errors[i] = message

IsTypeError(message) ==
    \E type \in FileTypeInputs : message = "File type " \o type \o " is not allowed"

\* C11: validateFileUpload is not fail-fast.  The errors list holds exactly
\* one message for each violated check among MIME allow-list, size ceiling
\* (size > 10 MiB) and extension denylist, each decided independently of the
\* others, and valid is true exactly when the list is empty.
C11_NotFailFast ==
    call.op = "validateFileUpload" =>
        LET file == call.file
            errors == call.ret.errors
            badType == file.type \notin allowedTypes
            badSize == file.size > 10 * 1024 * 1024
            badExt == Denylisted(file.name)
        IN  /\ badType <=> \E i \in 1..Len(errors) : IsTypeError(errors[i])
            /\ badSize <=> InErrors(errors, SizeError)
            /\ badExt <=> InErrors(errors, ExtensionError)
            /\ Len(errors) = (IF badType THEN 1 ELSE 0) + (IF badSize THEN 1 ELSE 0)
                                + (IF badExt THEN 1 ELSE 0)
            /\ call.ret.valid <=> errors = <<>>

\* A file over the size ceiling with a denylisted extension and an
\* allow-listed type gets both reasons.
C11_Witness ==
    /\ call.op = "validateFileUpload"
    /\ call.file.type \in allowedTypes
    /\ call.file.size > 10 * 1024 * 1024
    /\ Denylisted(call.file.name)
    /\ call.ret.errors = <<SizeError, ExtensionError>>
    /\ ~call.ret.valid

\* Two code units are the same letter, case aside: they are equal, or their
\* upper-case forms or their lower-case forms coincide ("s", "S" and the
\* long s U+017F are one letter).
SameLetter(c, d) ==
    \/ c = d
    \/ UpperCaseOf(c) = UpperCaseOf(d)
    \/ LowerCaseOf(c) = LowerCaseOf(d)

\* The name ends with one of the nine extensions, compared letter by letter
\* without regard to case.
DenylistedIgnoringCase(name) ==
    \E i \in 1..Len(dangerousExtensions) :
        LET ext == dangerousExtensions[i]
        IN  /\ Len(ext) <= Len(name)
            /\ \A j \in 1..Len(ext) :
                  SameLetter(name[Len(name) - Len(ext) + j], ext[j])

\* C12 as stated: every file whose name ends case-insensitively with a
\* denylisted extension is refused by validateFileUpload with the extension
\* error, whatever its declared MIME type and size.
C12_Original ==
    (call.op = "validateFileUpload" /\ DenylistedIgnoringCase(call.file.name)) =>
        /\ ~call.ret.valid
        /\ InErrors(call.ret.errors, ExtensionError)

\* C12 amended: every file whose lower-cased name ends with a denylisted
\* extension, that is whose name ends with the extension written in small
\* and capital letters in any mix, is refused by validateFileUpload with the
\* extension error, whatever its declared MIME type and size; a name that
\* ends with an extension only under another case relation (the long s of
\* "a.j" + U+017F, whose upper case is S) gets no extension error.
C12_DenylistedExtensionRefused ==
    /\ (call.op = "validateFileUpload" /\ Denylisted(call.file.name)) =>
          /\ ~call.ret.valid
          /\ InErrors(call.ret.errors, ExtensionError)
    /\ (call.op = "validateFileUpload" /\ ~Denylisted(call.file.name)) =>
          ~InErrors(call.ret.errors, ExtensionError)

\* An upper-case .EXE declared as application/pdf, 1024 bytes, is refused
\* with the extension error alone.
C12_Witness ==
    /\ call.op = "validateFileUpload"
    /\ call.file.name = <<"S", "e", "t", "u", "p", ".", "E", "X", "E">>
    /\ call.file.type = "application/pdf"
    /\ call.file.size = 1024
    /\ call.ret = [valid |-> FALSE, errors |-> <<ExtensionError>>]

\* The content starts with one of the four executable magic numbers.
ExecutableContent(content) ==
    \/ (Len(content) >= 2 /\ SubSeq(content, 1, 2) = <<77, 90>>)
    \/ (Len(content) >= 4 /\ SubSeq(content, 1, 4) \in
            {<<127, 69, 76, 70>>, <<202, 254, 186, 190>>, <<254, 237, 250, 206>>})

\* C13 as stated: whenever validateFile receives content whose leading bytes
\* are an executable magic number, the result has valid = false and an error
\* about executable content.
C13_Original ==
    (/\ call.op = "validateFile"
     /\ call.file.content # <<>>
     /\ ExecutableContent(call.file.content[1]))
    => /\ ~call.ret.valid
       /\ InErrors(call.ret.errors, "File contains executable code")

\* C14 as stated: a file whose name carries a denylisted extension followed
\* by a benign final extension is refused by validateFileUpload with at
\* least one error, even with an allow-listed type and a size within the
\* limit.
C14_Original ==
    (/\ call.op = "validateFileUpload"
     /\ \E k \in 1..Len(call.file.name) - 1 :
            /\ Denylisted(SubSeq(call.file.name, 1, k))
            /\ call.file.name[k + 1] = "."
            /\ ~Denylisted(call.file.name))
    => /\ ~call.ret.valid
       /\ Len(call.ret.errors) > 0

(***************************************************************************)
(* Properties of sanitizeFormData.                                         *)
(***************************************************************************)
\* The value is a plain object whose values are leaves or plain objects.
RECURSIVE IsPlainTree(_)
IsPlainTree(value) ==
    /\ value.kind = "object"
    /\ \A i \in 1..Len(value.val) :
          \/ value.val[i][2].kind \in
                {"string", "number", "boolean", "null", "undefined"}
          \/ IsPlainTree(value.val[i][2])

\* The keys of an object, and the value stored under one of them.
KeysOf(value) == {value.val[i][1] : i \in 1..Len(value.val)}

ValueAt(value, key) ==
    value.val[CHOOSE i \in 1..Len(value.val) : value.val[i][1] = key][2]

\* out is what the claim allows for the plain tree in: the same keys, each
\* string stripped of its markup, each other leaf identical, each nested
\* object related in the same way.
RECURSIVE SanitizedTree(_, _)
SanitizedTree(in, out) ==
    /\ out.kind = "object"
    /\ Len(out.val) = Len(in.val)
    /\ KeysOf(out) = KeysOf(in)
    /\ \A key \in KeysOf(in) :
          LET v == ValueAt(in, key)
              w == ValueAt(out, key)
          IN  CASE v.kind = "string" ->
                     /\ w.kind = "string"
                     /\ w.val = SelectSeq(v.val, LAMBDA atom : atom \notin MarkupAtoms)
                [] v.kind = "object" -> SanitizedTree(v, w)
                [] OTHER -> w = v

IsSanitizeCall ==
    call.op = "sanitizeFormData" /\ call.config.enableInputSanitization

\* C15 as stated: with sanitization enabled, sanitizeFormData of a nested
\* plain object returns an object with the same keys at every depth, every
\* string leaf replaced by its text-mode sanitization (at any depth), every
\* number, boolean, null and undefined leaf identical, and leaves the input
\* object as it was.
C15_Original ==
    (IsSanitizeCall /\ IsPlainTree(call.input)) =>
        /\ SanitizedTree(call.input, call.ret)
        /\ call.inputAfter = call.input

\* C16 as stated: an array value, the empty array included, comes out as an
\* array of the same length and order with its string elements sanitized,
\* and empty containers pass through unaltered.
C16_Original ==
    IsSanitizeCall /\ call.input.kind = "object" =>
        \A key \in KeysOf(call.input) :
            LET v == ValueAt(call.input, key)
                w == ValueAt(call.ret, key)
            IN  /\ v.kind = "array" =>
                      /\ w.kind = "array"
                      /\ Len(w.val) = Len(v.val)
                      /\ \A i \in 1..Len(v.val) :
                            IF v.val[i].kind = "string"
                            THEN w.val[i] =
                                    JString(SelectSeq(v.val[i].val,
                                        LAMBDA atom : atom \notin MarkupAtoms))
                            ELSE w.val[i] = v.val[i]
                /\ (v.kind \in {"array", "object"} /\ v.val = <<>>) => w = v

\* C17 as stated: for every SQL-injection-shaped string value the output of
\* sanitizeFormData holds none of the keywords DROP, INSERT, UPDATE, DELETE,
\* UNION, SELECT and none of the separators ; and --.
C17_Original ==
    IsSanitizeCall /\ call.input.kind = "object" =>
        \A key \in KeysOf(call.input) :
            LET v == ValueAt(call.input, key)
                w == ValueAt(call.ret, key)
            IN  (v.kind = "string" /\ v.val \in SQLInputs) =>
                    /\ w.kind = "string"
                    /\ \A i \in 1..Len(w.val) :
                          w.val[i] \notin SQLKeywords \cup SQLSeparators

(***************************************************************************)
(* Properties of the session registry.                                     *)
(***************************************************************************)
IsValidateSession == call.op = "validateSession"

\* C18: validateSession fails with exactly one reason, checked in the order
\* not found, expired (now - created > 24h), idle timeout (now -
\* lastActivity > 2h), IP mismatch; after a failure on an existing record
\* that record is gone from the map; and valid = true is returned exactly
\* when none of the four conditions holds.
C18_ReasonsInOrder ==
    IsValidateSession =>
        IF call.session = <<>>
        THEN /\ call.ret = [valid |-> FALSE, reason |-> "Session not found"]
             /\ call.sessionId \notin DOMAIN sessions
        ELSE LET session == call.session[1] IN
             IF now - session.created > 24 * 60 * 60 * 1000
             THEN /\ call.ret = [valid |-> FALSE, reason |-> "Session expired"]
                  /\ call.sessionId \notin DOMAIN sessions
             ELSE IF now - session.lastActivity > 2 * 60 * 60 * 1000
             THEN /\ call.ret = [valid |-> FALSE, reason |-> "Session idle timeout"]
                  /\ call.sessionId \notin DOMAIN sessions
             ELSE IF session.ipAddress # call.ipAddress
             THEN /\ call.ret = [valid |-> FALSE, reason |-> "IP address mismatch"]
                  /\ call.sessionId \notin DOMAIN sessions
             ELSE /\ call.ret.valid
                  /\ call.sessionId \in DOMAIN sessions

\* A session past its absolute age, still within its idle time and presented
\* from another IP address, is refused as expired and deleted.
C18_Witness ==
    /\ IsValidateSession
    /\ call.session # <<>>
    /\ now - call.session[1].created > 24 * 60 * 60 * 1000
    /\ ~(now - call.session[1].lastActivity > 2 * 60 * 60 * 1000)
    /\ call.session[1].ipAddress # call.ipAddress
    /\ call.ret = [valid |-> FALSE, reason |-> "Session expired"]
    /\ call.sessionId \notin DOMAIN sessions

\* C19: a successful validateSession sets lastActivity to the current time,
\* leaves created and the bound userId as createSession set them and returns
\* that userId; a session presented from its own IP address within 2h of its
\* last activity and within 24h of its creation is valid; and validateSession
\* never returns valid once now - created > 24h.
C19_RefreshWithinAbsoluteAge ==
    IsValidateSession =>
        /\ call.ret.valid =>
              /\ call.sessionId \in DOMAIN sessions
              /\ call.sessionId \in DOMAIN sessionLedger
              /\ sessions[call.sessionId].lastActivity = now
              /\ sessions[call.sessionId].created =
                    sessionLedger[call.sessionId].created
              /\ sessions[call.sessionId].userId =
                    sessionLedger[call.sessionId].userId
              /\ call.ret.userId = sessionLedger[call.sessionId].userId
              /\ ~(now - sessionLedger[call.sessionId].created > 24 * 60 * 60 * 1000)
        /\ (/\ call.session # <<>>
            /\ now - call.session[1].lastActivity <= 2 * 60 * 60 * 1000
            /\ now - call.session[1].created <= 24 * 60 * 60 * 1000
            /\ call.session[1].ipAddress = call.ipAddress)
           => call.ret.valid

\* A session kept alive by validations 2h apart is still valid exactly 24h
\* after its creation, its activity time refreshed from 22h to 24h.
C19_Witness ==
    /\ IsValidateSession
    /\ call.session # <<>>
    /\ now - call.session[1].created = 24 * 60 * 60 * 1000
    /\ now - call.session[1].lastActivity = 2 * 60 * 60 * 1000
    /\ call.ret.valid
    /\ sessions[call.sessionId].lastActivity = now

\* The record of the session is past its absolute or its idle expiry.
PastExpiry(sessionId) ==
    /\ sessionId \in DOMAIN sessions
    /\ \/ now - sessions[sessionId].created > 24 * 60 * 60 * 1000
       \/ now - sessions[sessionId].lastActivity > 2 * 60 * 60 * 1000

\* C20 as stated: in the browser and on the server alike, a session record
\* past its absolute or idle expiry is eventually removed from the session
\* map, given that the registered timers keep firing.
C20_Original ==
    \A sessionId \in SessionIdSet :
        [](PastExpiry(sessionId) => <>(sessionId \notin DOMAIN sessions))

(***************************************************************************)
(* Properties of the client session id and of concurrent use.              *)
(***************************************************************************)
\* C21 as stated: generateCSRFToken called (CSRF enabled) in a browser whose
\* local storage holds nothing under 'session-id' stores a random UUID under
\* that key, and writes nothing when a value is already stored.
C21_Original ==
    [][(call'.op = "generateCSRFToken" /\ call'.enableCSRF /\ window) =>
          IF localStorage = NULL
          THEN localStorage' \in UUIDs
          ELSE localStorage' = localStorage]_vars

\* The results the finished requests of the current pair have received.
RaceResults(value) ==
    {c \in DOMAIN requests : requests[c].ret = <<value>>}

\* The token the two requests carry was replaced, after they arrived, by a
\* later token issued for their session.
RaceTokenReplaced ==
    \E c \in DOMAIN requests :
        requests[c].token \in Superseded(requests[c].sessionId)

\* C22: two simultaneous validations of the same correct token for the same
\* session.  Under every interleaving of the two validateToken calls with
\* each other and with the periodic cleanup, exactly one call returns true
\* and the other returns false: never two acceptances, and, as long as no
\* later token was issued for the session (the token is then no longer the
\* correct one), the first request to take its turn is accepted and the
\* second refused.
C22_FirstCallerWins ==
    /\ Cardinality(RaceResults(TRUE)) <= 1
    /\ (requests # EmptyMap /\ NonePending /\ ~RaceTokenReplaced) =>
          /\ Cardinality(RaceResults(TRUE)) = 1
          /\ Cardinality(RaceResults(FALSE)) = 1
    /\ (requests # EmptyMap /\ RaceResults(TRUE) = {} /\ ~RaceTokenReplaced) =>
          RaceResults(FALSE) = {}

\* The sweep ran between the two turns: the second request found no record
\* and was refused, the first had been accepted.
C22_Witness ==
    /\ call.op = "validateToken"
    /\ call.tokenData = <<>>
    /\ call.ret = FALSE
    /\ NonePending
    /\ ~RaceTokenReplaced
    /\ \E c \in DOMAIN requests : c # call.caller /\ requests[c].ret = <<TRUE>>

\* C23: the sweep frame.  cleanup() removes exactly the records that are
\* expired (now > expires) or used and leaves every unexpired, unused record
\* as it was, so a token that would validate right before the sweep
\* validates right after it.
C23_SweepFrame ==
    [][call'.op = "cleanup" =>
          /\ DOMAIN tokens' =
                {s \in DOMAIN tokens : ~(now > tokens[s].expires) /\ ~tokens[s].used}
          /\ \A s \in DOMAIN tokens' : tokens'[s] = tokens[s]
          /\ \A s \in DOMAIN tokens :
                validateToken(tokens, s, tokens[s].token, now).ret
                    => validateToken(tokens', s, tokens[s].token, now').ret]_vars

\* A sweep has just run: the record of a consumed token is gone and the
\* unused, unexpired record of another session is still there.
C23_Witness ==
    /\ call.op = "cleanup"
    /\ \E s \in DOMAIN tokens :
          /\ ~tokens[s].used
          /\ ~(now > tokens[s].expires)
          /\ ledger[tokens[s].token].validations = 0
    /\ \E tkn \in DOMAIN ledger :
          /\ ledger[tkn].validations = 1
          /\ ledger[tkn].sessionId \notin DOMAIN tokens

\* C24 as stated: the CSRF records of one SecurityMiddleware instance are not
\* changed by operations on another instance (a record that holds a token
\* issued through A is the same after every call on B), and a token issued
\* through A does not validate through B.
C24_Original ==
    /\ [][\A s \in DOMAIN tokens :
             origin[tokens[s].token].instance # call'.instance
                 => (s \in DOMAIN tokens' /\ tokens'[s] = tokens[s])]_vars
    /\ []((/\ call.op = "validateCSRFToken"
           /\ call.token \in DOMAIN origin
           /\ origin[call.token].instance # call.instance)
          => call.ret = FALSE)

\* C25: in every reachable state of the session registry, after any sequence
\* of createSession, validateSession, destroySession and cleanup under a
\* non-decreasing clock, every stored session record has
\* lastActivity >= created.
C25_ActivityNotBeforeCreation ==
    \A sessionId \in DOMAIN sessions :
        sessions[sessionId].lastActivity >= sessions[sessionId].created

\* A session created after the clock had advanced, and refreshed by a later
\* validation.
C25_Witness ==
    \E sessionId \in DOMAIN sessions :
        /\ sessions[sessionId].created > 0
        /\ sessions[sessionId].lastActivity > sessions[sessionId].created

(***************************************************************************)
(* Properties of file names and of the two file validators.                *)
(***************************************************************************)
\* C26 as stated: for every input string the result of sanitizeFilename
\* holds only ASCII letters, digits, hyphen, underscore and dot, has no two
\* consecutive dots, neither starts nor ends with a dot, and is at most 255
\* characters long.
C26_Original ==
    call.op = "sanitizeFilename" =>
        LET out == call.ret IN
        /\ \A i \in 1..Len(out) :
              \/ \E j \in 1..26 : out[i] \in {LowerCaseLetters[j], UpperCaseLetters[j]}
              \/ \E j \in 1..10 : out[i] = Digits[j]
              \/ out[i] \in {"-", "_", "."}
        /\ \A i \in 1..Len(out) - 1 : ~(out[i] = "." /\ out[i + 1] = ".")
        /\ out # <<>> => (out[1] # "." /\ out[Len(out)] # ".")
        /\ Len(out) <= 255

(***************************************************************************)
(* Properties of refused validations and of interleaved issuers.           *)
(***************************************************************************)
\* The validation just made returned false and the token presented is not
\* the token of the record read, whatever the state of that record.
RefusedForMismatch ==
    /\ IsValidate
    /\ call.ret = FALSE
    /\ call.tokenData # <<>>
    /\ call.tokenData[1].token # call.token

\* The validation just made returned false and named a session other than
\* the one the presented token was issued for, whether that session held no
\* record or a record in any state.
RefusedForOtherSession ==
    /\ IsValidate
    /\ call.ret = FALSE
    /\ call.token \in DOMAIN ledger
    /\ ledger[call.token].sessionId # call.sessionId

\* The record read by the validation just made was unused and past its
\* expiry.
ReadExpiredUnused ==
    /\ call.tokenData # <<>>
    /\ ~call.tokenData[1].used
    /\ now > call.tokenData[1].expires

\* Every token that would validate in the map before still validates
\* exactly once for its session in the map after.
StillValidatesOnce(before, after, time) ==
    \A s \in DOMAIN before :
        validateToken(before, s, before[s].token, time).ret =>
            LET first == validateToken(after, s, before[s].token, time)
            IN  /\ first.ret = TRUE
                /\ validateToken(first.tokens, s, before[s].token, time).ret = FALSE

\* C27 as stated: a validateToken call that returns false because of a token
\* mismatch or because it names another session leaves every record of the
\* token map unchanged, and every token that would validate before the
\* refused call still validates exactly once for its session after it.
C27_Original ==
    [][(RefusedForMismatch \/ RefusedForOtherSession)' =>
          /\ tokens' = tokens
          /\ StillValidatesOnce(tokens, tokens', now')]_vars

\* C27 amended: such a call leaves every record of the token map unchanged
\* except the record of the session it names when that record is unused and
\* past its expiry, which it deletes; every token that would validate
\* before the refused call still validates exactly once for its session
\* after it.
C27_RefusalLeavesRecords ==
    [][(RefusedForMismatch \/ RefusedForOtherSession)' =>
          /\ tokens' = IF ReadExpiredUnused'
                       THEN [s \in DOMAIN tokens \ {call'.sessionId} |-> tokens[s]]
                       ELSE tokens
          /\ StillValidatesOnce(tokens, tokens', now')]_vars

\* The fresh token of one session was presented for another session whose
\* own record was unused and past its expiry: the call was refused and
\* deleted that record, and the presented token is still unused and
\* unexpired in the record of its own session.
C27_Witness ==
    /\ RefusedForMismatch
    /\ RefusedForOtherSession
    /\ ReadExpiredUnused
    /\ call.sessionId \notin DOMAIN tokens
    /\ ledger[call.token].sessionId \in DOMAIN tokens
    /\ tokens[ledger[call.token].sessionId].token = call.token
    /\ ~tokens[ledger[call.token].sessionId].used
    /\ ~(now > tokens[ledger[call.token].sessionId].expires)
    /\ ledger[call.token].validations = 0

\* A token handed out by generateCSRFToken that a later secureFetch token of
\* the same session has replaced before it was validated.
ReplacedFormTokens(s) ==
    {tkn \in Superseded(s) :
        /\ origin[tkn].via = "generateCSRFToken"
        /\ ledger[tkn].validations = 0
        /\ \E later \in DOMAIN ledger :
              /\ ledger[later].sessionId = s
              /\ ledger[later].n > ledger[tkn].n
              /\ origin[later].via = "secureFetch"}

\* C28 as stated: every secureFetch call with a mutating method stores a new
\* token for the client's stored session id, a form token of that session
\* replaced this way is refused by validateCSRFToken, and a secureFetch with
\* GET, HEAD or no method leaves the token map unchanged.
C28_Original ==
    [][/\ (call'.op = "secureFetch" /\ call'.options.method \in MutatingSpellings)
            => /\ localStorage' \in DOMAIN tokens'
               /\ tokens'[localStorage'].token \notin IssuedTokens
               /\ ~tokens'[localStorage'].used
       /\ (IsValidate' /\ call'.token \in ReplacedFormTokens(call'.sessionId))
            => call'.ret = FALSE
       /\ (call'.op = "secureFetch" /\ call'.options.method \in SafeSpellings)
            => tokens' = tokens]_vars

\* C28 amended: in a browser, every secureFetch call of a CSRF-enabled
\* instance with a mutating method stores a new unused token for the stored
\* (or just provisioned) session id in place of that session's record and
\* leaves the other records alone, so a form token of the same session
\* obtained earlier and not yet validated is refused afterwards; a
\* secureFetch with GET, HEAD or no method, with CSRF disabled, or on the
\* server leaves the token map unchanged.
C28_FetchReplacesFormToken ==
    [][/\ call'.op = "secureFetch" =>
            IF /\ call'.options.method \in MutatingSpellings
               /\ call'.config.enableCSRF
               /\ window
            THEN /\ localStorage' \in DOMAIN tokens'
                 /\ tokens'[localStorage'] =
                       [token |-> generateSecureToken(issued + 1),
                        expires |-> now + tokenExpiry, used |-> FALSE]
                 /\ generateSecureToken(issued + 1) \notin IssuedTokens
                 /\ \A s \in DOMAIN tokens :
                       /\ s # localStorage' =>
                             (s \in DOMAIN tokens' /\ tokens'[s] = tokens[s])
                       /\ s = localStorage' =>
                             ~validateToken(tokens', s, tokens[s].token, now').ret
            ELSE tokens' = tokens
       /\ (IsValidate' /\ call'.token \in ReplacedFormTokens(call'.sessionId))
            => call'.ret = FALSE]_vars

\* A form token of the stored session, never validated, was presented after
\* a mutating secureFetch had replaced it, and was refused although the
\* record read was unused and unexpired.
C28_Witness ==
    /\ IsValidate
    /\ call.sessionId = localStorage
    /\ call.token \in ReplacedFormTokens(call.sessionId)
    /\ call.tokenData # <<>>
    /\ ~call.tokenData[1].used
    /\ ~(now > call.tokenData[1].expires)
    /\ origin[call.tokenData[1].token].via = "secureFetch"
    /\ call.ret = FALSE

(***************************************************************************)
(* Properties of the IP binding of sessions.                               *)
(***************************************************************************)
\* The user agents a caller may present, the one bound at creation included.
AgentsPresented == {"agent-1", "agent-2", ""}

\* The validation just made presented a live, unexpired session from an IP
\* address other than the one bound at creation.
ForeignAddressOnLiveSession ==
    /\ IsValidateSession
    /\ call.session # <<>>
    /\ ~(now - call.session[1].created > 24 * 60 * 60 * 1000)
    /\ ~(now - call.session[1].lastActivity > 2 * 60 * 60 * 1000)
    /\ call.session[1].ipAddress # call.ipAddress

\* C29: a validateSession call that presents a live, unexpired session from
\* an IP address other than the bound one returns invalid (IP address
\* mismatch) and deletes the session; a deleted session never returns, so
\* the next validateSession of that id, from the original address too,
\* returns 'Session not found'; and the outcome of every validateSession
\* call is the same for every user agent presented.
C29_AddressBindingDestructive ==
    [][/\ ForeignAddressOnLiveSession' =>
            /\ call'.ret = [valid |-> FALSE, reason |-> "IP address mismatch"]
            /\ call'.sessionId \in DOMAIN sessions
            /\ call'.sessionId \notin DOMAIN sessions'
       /\ \A sessionId \in DOMAIN sessionLedger :
             sessionId \notin DOMAIN sessions => sessionId \notin DOMAIN sessions'
       /\ (ForeignAddressOnLiveSession /\ IsValidateSession'
              /\ call'.sessionId = call.sessionId)
            => call'.ret = [valid |-> FALSE, reason |-> "Session not found"]
       /\ IsValidateSession' =>
            \A userAgent \in AgentsPresented :
                LET r == validateSession(sessions, call'.sessionId,
                                         call'.ipAddress, userAgent, now')
                IN  r.ret = call'.ret /\ r.sessions = sessions']_vars

\* A session refreshed from its own address, under a user agent other than
\* the bound one, was then presented from another address: it was refused
\* for the address and is gone.
C29_Witness ==
    /\ ForeignAddressOnLiveSession
    /\ call.session[1].lastActivity > call.session[1].created
    /\ call.session[1].userAgent # call.userAgent
    /\ call.ret = [valid |-> FALSE, reason |-> "IP address mismatch"]
    /\ call.sessionId \notin DOMAIN sessions

(***************************************************************************)
(* Agreement of the two file validators.                                   *)
(***************************************************************************)
\* The checks an errors list reports as violated.
ChecksFlagged(errors) ==
    {check \in {"size", "type", "extension"} :
        \E i \in 1..Len(errors) :
            \/ check = "size" /\ errors[i] = SizeError
            \/ check = "type" /\ \E type \in FileTypeInputs \cup {"application/x-executable"} :
                                    errors[i] = "File type " \o type \o " is not allowed"
            \/ check = "extension"
                   /\ errors[i] \in {ExtensionError, "File extension is not allowed"}}

\* C30 as stated: for every upload descriptor without content bytes, under
\* the default policy, validateFileUpload and validateFile return the same
\* valid verdict and flag the same set of violated checks (size, MIME type,
\* extension).
C30_Original ==
    (call.op = "validateFile" /\ call.file.content = <<>>) =>
        LET upload == validateFileUpload([name |-> call.file.name,
                                          type |-> call.file.type,
                                          size |-> call.file.size])
        IN  /\ upload.valid = call.ret.valid
            /\ ChecksFlagged(upload.errors) = ChecksFlagged(call.ret.errors)

====
